---- MODULE Spec2Model ----
(***************************************************************************)
(* Title reservation and activation scheduler (main.py, web_routes.py,     *)
(* db_utils.py, models.py).                                                *)
(*                                                                         *)
(* Instants are integers: seconds since 00:00:00 UTC of day 0.  A Python   *)
(* datetime is a record [wall, off, aware]: its wall-clock fields as       *)
(* seconds, its UTC offset in seconds, and whether it carries a tzinfo.    *)
(* An ISO text 'YYYY-MM-DDTHH:MM:SS' is the tuple <<day, hh, mm, ss>> of   *)
(* its fields.  A string of coordinates is a sequence of characters.       *)
(***************************************************************************)
EXTENDS Integers, Sequences, FiniteSets, TLC

\* ---------------------------------------------------------------- bounds
\* The clock takes the values 0, 6h, 12h, ... , MaxClock * 6h.
MaxClock == 2
\* Number of web worker threads that may run a booking at the same time.
MaxThreads == 2
\* Number of requests one run serves.
MaxOps == 3

\* ------------------------------------------------------------- constants
SHIFT_DEFAULT == 12
MIN_SHIFT == 1
MAX_SHIFT == 72

GOH == "Guardian of Harmony"
\* main.py 123-164: three of the nine titles of TITLES_CATALOG, in its order
ORDERED_TITLES == <<"Guardian of Harmony", "Architect", "General">>
Range(s) == {s[i] : i \in DOMAIN s}
CatalogTitles == Range(ORDERED_TITLES)
REQUESTABLE == {t \in CatalogTitles : t /= GOH}

\* Inputs of the model.
Names == {"Bob", "Carl"}
TitleInputs == {GOH, "Architect", "Jester"}
TitleChoices == {"Architect"}
HeldTitles == {GOH, "Architect"}
ClockStep == 6 * 3600
Clock == {k * ClockStep : k \in 0..MaxClock}
ShiftInputs == {6, 12, 73}
Dash == <<"-">>
CoordInputs == {Dash, <<" ", "1", ":", "2">>, <<"1", ":", "x">>}


\* ------------------------------------------------------ datetime helpers
Dt(wall, off, aware) == [wall |-> wall, off |-> off, aware |-> aware]
UtcDt(t) == Dt(t, 0, TRUE)

\* The instant an aware datetime denotes.
Instant(dt) == dt.wall - dt.off

\* dt.replace(tzinfo=UTC) for a naive datetime
AssumeUtc(dt) == IF dt.aware THEN dt ELSE Dt(dt.wall, 0, TRUE)

\* dt.strftime("%H:%M"): the wall-clock hour and minute, in dt's own zone
strftime_HM(dt) == <<(dt.wall \div 3600) % 24, (dt.wall \div 60) % 60>>

\* dt.replace(second=0, microsecond=0) on a wall-clock value
ZeroSeconds(w) == w - (w % 60)

\* normalize_slot_dt without the replace(second=0, microsecond=0) of main.py 97
normalize_slot_dt_KeepSeconds(dt) == Instant(AssumeUtc(dt))

\* main.py 93-97
normalize_slot_dt(dt) == ZeroSeconds(Instant(AssumeUtc(dt)))

\* strftime("%Y-%m-%dT%H:%M:%S") / isoformat() of a UTC wall-clock value
IsoText(w) == <<w \div 86400, (w \div 3600) % 24, (w \div 60) % 60, w % 60>>

iso_slot_key_naive(dt) ==
    LET w == IF dt.aware THEN Instant(dt) ELSE dt.wall
    IN  IsoText(ZeroSeconds(w))

\* parse_iso_utc on a naive ISO text: the fields read as UTC
parse_iso_utc(s) == s[1] * 86400 + s[2] * 3600 + s[3] * 60 + s[4]

\* ------------------------------------------------------------ coordinates
IsSpace(c) == c = " "
IsDigit(c) == c \in {"0", "1", "2", "3", "4", "5", "6", "7", "8", "9"}

RECURSIVE LStrip(_)
LStrip(s) == IF s /= <<>> /\ IsSpace(Head(s)) THEN LStrip(Tail(s)) ELSE s
RECURSIVE RStrip(_)
RStrip(s) ==
    IF s /= <<>> /\ IsSpace(s[Len(s)]) THEN RStrip(SubSeq(s, 1, Len(s) - 1)) ELSE s
Strip(s) == RStrip(LStrip(s))

\* s or "-"
OrDash(s) == IF s = <<>> THEN Dash ELSE s

RECURSIVE SkipDigits(_)
SkipDigits(s) == IF s /= <<>> /\ IsDigit(Head(s)) THEN SkipDigits(Tail(s)) ELSE s

\* re.fullmatch(r"\s*\d+\s*:\s*\d+\s*", s)
CoordsMatch(s) ==
    LET a == LStrip(s)
        b == SkipDigits(a)
        c == LStrip(b)
        d == IF c /= <<>> /\ Head(c) = ":" THEN LStrip(Tail(c)) ELSE <<"!">>
        e == SkipDigits(d)
        f == LStrip(e)
    IN  /\ b /= a
        /\ c /= <<>> /\ Head(c) = ":"
        /\ e /= d
        /\ f = <<>>


\* ----------------------------------------------------------- settings row
\* The Setting row 'shift_hours' is missing or holds a text (Setting.value is
\* a String column).
DigitChars == <<"0", "1", "2", "3", "4", "5", "6", "7", "8", "9">>
DigitValue(c) == (CHOOSE d \in DOMAIN DigitChars : DigitChars[d] = c) - 1

\* str(n) of a natural number, and of an integer
RECURSIVE StrNat(_)
StrNat(n) ==
    IF n < 10 THEN <<DigitChars[n + 1]>>
    ELSE StrNat(n \div 10) \o <<DigitChars[(n % 10) + 1]>>
str(n) == IF n < 0 THEN <<"-">> \o StrNat(0 - n) ELSE StrNat(n)

\* int(text): surrounding blanks and one sign are accepted, then digits only;
\* any other text raises ValueError
RECURSIVE DigitsValue(_, _)
DigitsValue(s, acc) ==
    IF s = <<>> THEN acc
    ELSE DigitsValue(Tail(s), 10 * acc + DigitValue(Head(s)))
int(text) ==
    LET t      == Strip(text)
        signed == t /= <<>> /\ Head(t) \in {"+", "-"}
        digits == IF signed THEN Tail(t) ELSE t
    IN  IF digits = <<>> \/ \E n \in DOMAIN digits : ~IsDigit(digits[n])
        THEN [raised |-> TRUE, value |-> 0]
        ELSE [raised |-> FALSE,
              value  |-> IF signed /\ Head(t) = "-"
                         THEN 0 - DigitsValue(digits, 0)
                         ELSE DigitsValue(digits, 0)]

NoSetting == [kind |-> "missing", value |-> <<>>]
SettingRow(text) == [kind |-> "row", value |-> text]
IntSetting(h) == SettingRow(str(h))

\* get_shift_hours without the test of db_utils.py 58-59
get_shift_hours_AnyValue(row) ==
    IF row.kind = "missing" \/ Strip(row.value) = <<>> THEN SHIFT_DEFAULT
    ELSE LET hours == int(row.value)
         IN  IF hours.raised THEN SHIFT_DEFAULT ELSE hours.value

\* db_utils.py 49-60
get_shift_hours(row) ==
    IF row.kind = "missing" \/ Strip(row.value) = <<>> THEN SHIFT_DEFAULT
    ELSE LET hours == int(row.value)
         IN  IF hours.raised THEN SHIFT_DEFAULT
             ELSE IF hours.value < MIN_SHIFT \/ hours.value > MAX_SHIFT
             THEN SHIFT_DEFAULT
             ELSE hours.value

\* RangeFrom with the upper end included
RECURSIVE RangeFrom_Closed(_, _, _)
RangeFrom_Closed(lo, hi, step) ==
    IF lo > hi THEN <<>> ELSE <<lo>> \o RangeFrom_Closed(lo + step, hi, step)

\* range(0, 24, sh) as an increasing sequence
RECURSIVE RangeFrom(_, _, _)
RangeFrom(lo, hi, step) ==
    IF lo >= hi THEN <<>> ELSE <<lo>> \o RangeFrom(lo + step, hi, step)

\* compute_slots without the fallback of db_utils.py 88-89
compute_slots_AnyStep(shift_hours) ==
    LET sh == IF shift_hours <= 0 THEN 12 ELSE shift_hours
        hs == RangeFrom(0, 24, sh)
    IN  [i \in DOMAIN hs |-> <<hs[i], 0>>]

\* db_utils.py 77-90: 'HH:00' is the pair <<HH, 0>>
compute_slots(shift_hours) ==
    LET sh0 == IF shift_hours <= 0 THEN 12 ELSE shift_hours
        sh  == IF 24 % sh0 /= 0 THEN 12 ELSE sh0
        hs  == RangeFrom(0, 24, sh)
    IN  [i \in DOMAIN hs |-> <<hs[i], 0>>]

\* ------------------------------------------------------------------ state
VARIABLES
    now,           \* now_utc(): the current instant
    setting,       \* the Setting row 'shift_hours'
    reservations,  \* table reservation: a set of rows
    active,        \* table active_title: a set of rows
    titles,        \* state['titles']: title -> holder / claim_date / expiry_date
    schedules,     \* state['schedules']: title -> entries in insertion order
    activated,     \* state['activated_slots']: the <<title, slot key>> set to True
    calls,         \* bookings in progress on the web worker threads
    tick,          \* the run of title_check_loop in progress on the event loop
    ops,           \* number of requests served so far
    last           \* what the latest request reported to its caller

vars == <<now, setting, reservations, active, titles, schedules, activated,
          calls, tick, ops, last>>

Opt(x) == {x}
Nothing == {}
The(s) == CHOOSE x \in s : TRUE

Vacant == [holder |-> Nothing, claim_date |-> Nothing, expiry_date |-> Nothing]

\* What a request reported (op, result, by) and, for a booking, the request
\* itself (req) and whether it repeats the booking served just before (again);
\* for a direct assignment or a forced slot, the title, name and start asked
\* for (req);
\* for a cancellation, the title and start time asked for (req) and the
\* also_release_live box; for a run of the scheduler loop, the titles it
\* announced as released; for a call on the shift setting or the slot grid,
\* the argument as text (arg) and what was returned (out).
NoReq == [title |-> "", ign |-> "", coords |-> <<>>, dt |-> UtcDt(0)]
Report(op, result, by) ==
    [op |-> op, result |-> result, by |-> by, again |-> FALSE, req |-> NoReq,
     also_release_live |-> FALSE, released |-> {}, arg |-> <<>>, out |-> <<>>]

Threads == 1..MaxThreads
IdleCall == [pc |-> "idle", title |-> "", ign |-> "", coords |-> <<>>,
             slot_dt |-> 0, result |-> "", by |-> ""]

\* No run of title_check_loop is in progress; a run keeps the now it read
\* (main.py 780) and the titles and slots it still has to go through.
IdleTick == [pc |-> "idle", now |-> 0, to_release |-> <<>>, to_activate |-> <<>>]

Init ==
    /\ now = 0
    /\ setting = IntSetting(12)
    /\ reservations = {}
    /\ active = {}
    /\ titles = [t \in CatalogTitles |-> Vacant]
    /\ schedules = [t \in CatalogTitles |-> <<>>]
    /\ activated = {}
    /\ calls = [th \in Threads |-> IdleCall]
    /\ tick = IdleTick
    /\ ops = 0
    /\ last = Report("start", "ok", "")

\* ---------------------------------------------------- _reserve_slot_core
\* CoreCheck with main.py 520 written 'start_dt < now_utc()'
CoreCheck_StrictPast(dt, coords, t_now, row) ==
    LET start_dt == AssumeUtc(dt)
        allowed  == Range(compute_slots(get_shift_hours(row)))
        c        == Strip(OrDash(coords))
    IN  IF Instant(start_dt) < t_now THEN "PastTime"
        ELSE IF strftime_HM(start_dt) \notin allowed THEN "InvalidSlot"
        ELSE IF c /= Dash /\ ~CoordsMatch(c) THEN "InvalidCoords"
        ELSE "ok"

\* CoreCheck with the coordinates (main.py 529-531) checked ahead of the grid
\* (main.py 523-527)
CoreCheck_CoordsFirst(dt, coords, t_now, row) ==
    LET start_dt == AssumeUtc(dt)
        allowed  == Range(compute_slots(get_shift_hours(row)))
        c        == Strip(OrDash(coords))
    IN  IF Instant(start_dt) <= t_now THEN "PastTime"
        ELSE IF c /= Dash /\ ~CoordsMatch(c) THEN "InvalidCoords"
        ELSE IF strftime_HM(start_dt) \notin allowed THEN "InvalidSlot"
        ELSE "ok"

\* main.py 518-531: the checks made before anything is written
CoreCheck(dt, coords, t_now, row) ==
    LET start_dt == AssumeUtc(dt)
        allowed  == Range(compute_slots(get_shift_hours(row)))
        c        == Strip(OrDash(coords))
    IN  IF Instant(start_dt) <= t_now THEN "PastTime"
        ELSE IF strftime_HM(start_dt) \notin allowed THEN "InvalidSlot"
        ELSE IF c /= Dash /\ ~CoordsMatch(c) THEN "InvalidCoords"
        ELSE "ok"

CoreCoords(coords) == OrDash(Strip(OrDash(coords)))

\* Reservation.query.filter_by(title_name=..., slot_dt=...)
DbExisting(rows, title, slot_dt) ==
    {r \in rows : r.title_name = title /\ r.slot_dt = slot_dt}

NewReservation(title, ign, coords, slot_dt, slot_ts) ==
    [title_name |-> title, ign |-> ign, coords |-> coords,
     slot_dt |-> slot_dt, slot_ts |-> slot_ts]

\* DbStep without the branch of main.py 548-550 for a repeated request: any
\* row found refuses the booking
DbStep_NoRetry(rows, title, ign, coords, slot_dt) ==
    LET existing == DbExisting(rows, title, slot_dt)
    IN  IF existing /= {}
        THEN [result |-> "SlotTaken", by |-> The(existing).ign, rows |-> rows]
        ELSE [result |-> "ok", by |-> "",
              rows |-> rows \cup
                  {NewReservation(title, ign, coords, slot_dt, IsoText(slot_dt))}]

\* DbStep with main.py 549 comparing the names only
DbStep_NameOnly(rows, title, ign, coords, slot_dt) ==
    LET existing == DbExisting(rows, title, slot_dt)
    IN  IF existing /= {}
        THEN LET e == The(existing)
             IN  IF e.ign /= ign
                 THEN [result |-> "SlotTaken", by |-> e.ign, rows |-> rows]
                 ELSE [result |-> "ok", by |-> "", rows |-> rows]
        ELSE [result |-> "ok", by |-> "",
              rows |-> rows \cup
                  {NewReservation(title, ign, coords, slot_dt, IsoText(slot_dt))}]

\* main.py 542-564: step 1, the database write
DbStep(rows, title, ign, coords, slot_dt) ==
    LET existing == DbExisting(rows, title, slot_dt)
    IN  IF existing /= {}
        THEN LET e == The(existing)
             IN  IF e.ign /= ign \/ coords /= OrDash(e.coords)
                 THEN [result |-> "SlotTaken", by |-> e.ign, rows |-> rows]
                 ELSE [result |-> "ok", by |-> "", rows |-> rows]
        ELSE [result |-> "ok", by |-> "",
              rows |-> rows \cup
                  {NewReservation(title, ign, coords, slot_dt, IsoText(slot_dt))}]

SchedIndex(entries, slot_key) ==
    {i \in DOMAIN entries : entries[i].slot_key = slot_key}

\* main.py 567-575: step 2, the in-process schedules
LegacyStep(sched, title, ign, coords, slot_key) ==
    LET entries == IF title \in DOMAIN sched THEN sched[title] ELSE <<>>
        at      == SchedIndex(entries, slot_key)
        entry   == [slot_key |-> slot_key, ign |-> ign, coords |-> coords]
        new     == IF at /= {} THEN [entries EXCEPT ![The(at)] = entry]
                   ELSE Append(entries, entry)
    IN  IF at /= {} /\ entries[The(at)].ign /= ign
        THEN [result |-> "SlotTaken", by |-> entries[The(at)].ign, sched |-> sched]
        ELSE [result |-> "ok", by |-> "",
              sched |-> [t \in DOMAIN sched \cup {title} |->
                            IF t = title THEN new ELSE sched[t]]]

\* main.py 517-575: the outcome of one whole call
reserve_slot_core(title, ign, coords, dt) ==
    LET check    == CoreCheck(dt, coords, now, setting)
        c        == CoreCoords(coords)
        slot_dt  == normalize_slot_dt(dt)
        slot_key == iso_slot_key_naive(UtcDt(slot_dt))
        db       == DbStep(reservations, title, ign, c, slot_dt)
        leg      == LegacyStep(schedules, title, ign, c, slot_key)
    IN  IF check /= "ok"
        THEN [result |-> check, by |-> "", rows |-> reservations, sched |-> schedules]
        ELSE IF db.result /= "ok"
        THEN [result |-> db.result, by |-> db.by, rows |-> reservations,
              sched |-> schedules]
        ELSE [result |-> leg.result, by |-> leg.by, rows |-> db.rows,
              sched |-> leg.sched]

ReserveReport(op, result, by, title, ign, coords, dt) ==
    LET req == [title |-> title, ign |-> ign, coords |-> coords, dt |-> dt]
    IN  [op |-> op, result |-> result, by |-> by,
         again |-> last.result = "ok" /\ last.req = req,
         req |-> req, also_release_live |-> FALSE, released |-> {},
         arg |-> <<>>, out |-> <<>>]

Booking(op, title, ign, coords, dt) ==
    LET out == reserve_slot_core(title, ign, coords, dt)
    IN  /\ ops < MaxOps
        /\ ops' = ops + 1
        /\ reservations' = out.rows
        /\ schedules' = out.sched
        /\ last' = ReserveReport(op, out.result, out.by, title, ign, coords, dt)
        /\ UNCHANGED <<now, setting, active, titles, activated, calls, tick>>

\* A booking turned away before the shared writer is called.
NotBooked(op, result, title, ign, coords, dt) ==
    /\ ops < MaxOps
    /\ ops' = ops + 1
    /\ last' = ReserveReport(op, result, "", title, ign, coords, dt)
    /\ UNCHANGED <<now, setting, reservations, active, titles, schedules,
                   activated, calls, tick>>

Refused(op, result) ==
    /\ ops < MaxOps
    /\ ops' = ops + 1
    /\ last' = Report(op, result, "")
    /\ UNCHANGED <<now, setting, reservations, active, titles, schedules,
                   activated, calls, tick>>

\* An assignment turned away, with what was asked for.
RefusedReq(op, result, title, ign, t) ==
    /\ ops < MaxOps
    /\ ops' = ops + 1
    /\ last' = [Report(op, result, "")
                EXCEPT !.req = [NoReq EXCEPT !.title = title, !.ign = ign,
                                             !.dt = UtcDt(t)]]
    /\ UNCHANGED <<now, setting, reservations, active, titles, schedules,
                   activated, calls, tick>>


\* ------------------------------------------------------- booking requests
\* A request carries every field of the form and a date and time that parse;
\* the forms build the start time as a UTC datetime with zero seconds.
\* The times asked for: 06:00, 06:30 and 12:00 of day 0.
SlotTimes == {ClockStep, 2 * ClockStep}
FormTimes == SlotTimes \cup {ClockStep + 30 * 60}

\* main.py 661-663: the times /titles reserve offers, 00:00 and 12:00
ChoiceTimes == {t \in FormTimes : strftime_HM(UtcDt(t)) \in {<<0, 0>>, <<12, 0>>}}

\* book_slot without the test of web_routes.py 138-140
book_slot_AnyTitle(title, ign, coords, t) ==
    Booking("book_slot", title, ign, Strip(coords), UtcDt(t))

\* web_routes.py 127-168
book_slot(title, ign, coords, t) ==
    IF title \notin REQUESTABLE
    THEN NotBooked("book_slot", "NotRequestable", title, ign, Strip(coords), UtcDt(t))
    ELSE Booking("book_slot", title, ign, Strip(coords), UtcDt(t))

\* main.py 676-714: /titles reserve with every option given
titles_reserve(title, ign, coords, t) ==
    IF title \notin REQUESTABLE
    THEN NotBooked("titles_reserve", "NotRequestable", title, ign,
                   Strip(OrDash(coords)), UtcDt(t))
    ELSE Booking("titles_reserve", title, ign, Strip(OrDash(coords)), UtcDt(t))

\* main.py 610-634: the modal /titles reserve opens for a requestable title
on_submit(title, ign, coords, t) ==
    /\ title \in REQUESTABLE
    /\ Booking("on_submit", title, ign, Strip(OrDash(coords)), UtcDt(t))

\* ----------------------------------------------------------- admin routes
ActiveRow(title, holder, claim_at, expiry_at) ==
    [title_name |-> title, holder |-> holder, claim_at |-> claim_at,
     expiry_at |-> expiry_at]

\* UpsertActive without the lookup of web_routes.py 276 and 378: a row is
\* added whatever the table holds
UpsertActive_Insert(rows, title, holder, claim_at, expiry_at) ==
    rows \cup {ActiveRow(title, holder, claim_at, expiry_at)}

\* the upsert of an ActiveTitle row (web_routes.py 377-385, 276-283)
UpsertActive(rows, title, holder, claim_at, expiry_at) ==
    {a \in rows : a.title_name /= title}
        \cup {ActiveRow(title, holder, claim_at, expiry_at)}

\* UpsertReservation without the lookup of web_routes.py 340-346: a row is
\* added whatever the table holds
UpsertReservation_Insert(rows, title, ign, start, slot_ts) ==
    rows \cup {NewReservation(title, ign, Dash, start, slot_ts)}

\* web_routes.py 340-363: the upsert of a reservation by (title_name, slot_dt)
UpsertReservation(rows, title, ign, start, slot_ts) ==
    LET existing == DbExisting(rows, title, start)
    IN  IF existing = {}
        THEN rows \cup {NewReservation(title, ign, Dash, start, slot_ts)}
        ELSE (rows \ {The(existing)})
                 \cup {[The(existing) EXCEPT !.ign = ign, !.coords = Dash,
                                             !.slot_ts = slot_ts]}

\* admin_manual_set_slot writing the live row only for a slot that started
\* strictly before now
admin_manual_set_slot_StrictlyStarted(title, ign, t) ==
    IF title = GOH
    THEN RefusedReq("admin_manual_set_slot", "Rejected", title, ign, t)
    ELSE IF title \notin CatalogTitles
    THEN RefusedReq("admin_manual_set_slot", "UnknownTitle", title, ign, t)
    ELSE
        LET end_dt == t + get_shift_hours(setting) * 3600
        IN  /\ ops < MaxOps
            /\ ops' = ops + 1
            /\ reservations' = UpsertReservation(reservations, title, ign, t, IsoText(t))
            /\ active' = IF t < now
                         THEN UpsertActive(active, title, ign, t, Opt(end_dt))
                         ELSE active
            /\ last' = [Report("admin_manual_set_slot", "ok", "")
                        EXCEPT !.req = [NoReq EXCEPT !.title = title,
                                                     !.ign = ign,
                                                     !.dt = UtcDt(t)]]
            /\ UNCHANGED <<now, setting, titles, schedules, activated, calls, tick>>

\* web_routes.py 310-407
admin_manual_set_slot(title, ign, t) ==
    IF title = GOH
    THEN RefusedReq("admin_manual_set_slot", "Rejected", title, ign, t)
    ELSE IF title \notin CatalogTitles
    THEN RefusedReq("admin_manual_set_slot", "UnknownTitle", title, ign, t)
    ELSE
        LET end_dt == t + get_shift_hours(setting) * 3600
        IN  /\ ops < MaxOps
            /\ ops' = ops + 1
            /\ reservations' = UpsertReservation(reservations, title, ign, t, IsoText(t))
            /\ active' = IF t <= now
                         THEN UpsertActive(active, title, ign, t, Opt(end_dt))
                         ELSE active
            /\ last' = [Report("admin_manual_set_slot", "ok", "")
                        EXCEPT !.req = [NoReq EXCEPT !.title = title,
                                                     !.ign = ign,
                                                     !.dt = UtcDt(t)]]
            /\ UNCHANGED <<now, setting, titles, schedules, activated, calls, tick>>

\* web_routes.py 458-472: the row to delete, by slot_dt and else by slot_ts
FindReservation(rows, title, t) ==
    LET by_dt == DbExisting(rows, title, t)
        by_ts == {r \in rows : r.title_name = title /\ r.slot_ts = IsoText(t)}
    IN  IF by_dt /= {} THEN by_dt ELSE by_ts

\* LiveMatch comparing the holder only, not the start of the claim
LiveMatch_HolderOnly(rows, title, ign, t) ==
    {a \in rows : a.title_name = title /\ a.holder = ign}

\* web_routes.py 491-502: the live row released along with the reservation
LiveMatch(rows, title, ign, t) ==
    {a \in rows : a.title_name = title /\ a.holder = ign /\ a.claim_at = t}

\* admin_release_reservation releasing whatever live row of the title was
\* claimed at the start time asked for, whether or not a reservation is found
admin_release_reservation_LiveAnyway(title, t, also_release_live) ==
    LET found == FindReservation(reservations, title, t)
        gone  == {a \in active : a.title_name = title /\ a.claim_at = t}
    IN  /\ ops < MaxOps
        /\ ops' = ops + 1
        /\ reservations' = reservations \ found
        /\ active' = IF also_release_live THEN active \ gone ELSE active
        /\ last' = [Report("admin_release_reservation",
                           IF found = {} THEN "NotFound" ELSE "ok",
                           IF found = {} THEN "" ELSE The(found).ign)
                    EXCEPT !.req = [NoReq EXCEPT !.title = title,
                                                 !.dt = UtcDt(t)],
                           !.also_release_live = also_release_live,
                           !.released = IF also_release_live /\ gone /= {}
                                        THEN {title} ELSE {}]
        /\ UNCHANGED <<now, setting, titles, schedules, activated, calls, tick>>

\* web_routes.py 434-507: "Reservation not found." when neither lookup finds
\* a row; otherwise the row is deleted and, with also_release_live, the live
\* row of the same holder and start, which is then reported as released too
admin_release_reservation(title, t, also_release_live) ==
    LET found == FindReservation(reservations, title, t)
        asked == [NoReq EXCEPT !.title = title, !.dt = UtcDt(t)]
        res   == The(found)
        gone  == IF found /= {} /\ also_release_live
                 THEN LiveMatch(active, title, res.ign, t) ELSE {}
    IN  /\ ops < MaxOps
        /\ ops' = ops + 1
        /\ reservations' = IF found = {} THEN reservations
                           ELSE reservations \ {res}
        /\ active' = active \ gone
        /\ last' = [Report("admin_release_reservation",
                           IF found = {} THEN "NotFound" ELSE "ok",
                           IF found = {} THEN "" ELSE res.ign)
                    EXCEPT !.req = asked,
                           !.also_release_live = also_release_live,
                           !.released = IF gone /= {} THEN {title} ELSE {}]
        /\ UNCHANGED <<now, setting, titles, schedules, activated, calls, tick>>

\* admin_manual_assign taking a time of day off the slot grid as a reason
\* to turn the assignment away
admin_manual_assign_OnGridOnly(title, ign, goh_only) ==
    IF title \notin CatalogTitles
          \/ strftime_HM(UtcDt(now)) \notin Range(compute_slots(get_shift_hours(setting)))
    THEN RefusedReq("admin_manual_assign", "UnknownTitle", title, ign, 0)
    ELSE
        LET expiry_dt == IF title = GOH THEN Nothing
                         ELSE Opt(now + get_shift_hours(setting) * 3600)
        IN  /\ ops < MaxOps
            /\ ops' = ops + 1
            /\ active' = UpsertActive(active, title, ign, now, expiry_dt)
            /\ last' = [Report("admin_manual_assign", "ok", "")
                        EXCEPT !.req = [NoReq EXCEPT !.title = title,
                                                     !.ign = ign]]
            /\ UNCHANGED <<now, setting, reservations, titles, schedules,
                           activated, calls, tick>>

\* web_routes.py 252-308: the Guardian of Harmony form (goh_only) takes no
\* other title and an unknown title is turned away; otherwise the live row
\* of the title is written with claim_at = now
admin_manual_assign(title, ign, goh_only) ==
    IF goh_only /\ title /= GOH
    THEN RefusedReq("admin_manual_assign", "GohOnly", title, ign, 0)
    ELSE IF title \notin CatalogTitles
    THEN RefusedReq("admin_manual_assign", "UnknownTitle", title, ign, 0)
    ELSE
        LET expiry_dt == IF title = GOH THEN Nothing
                         ELSE Opt(now + get_shift_hours(setting) * 3600)
        IN  /\ ops < MaxOps
            /\ ops' = ops + 1
            /\ active' = UpsertActive(active, title, ign, now, expiry_dt)
            /\ last' = [Report("admin_manual_assign", "ok", "")
                        EXCEPT !.req = [NoReq EXCEPT !.title = title,
                                                     !.ign = ign]]
            /\ UNCHANGED <<now, setting, reservations, titles, schedules,
                           activated, calls, tick>>

\* web_routes.py 231-250
admin_force_release(title) ==
    IF title \notin CatalogTitles
    THEN Refused("admin_force_release", "UnknownTitle")
    ELSE /\ ops < MaxOps
         /\ ops' = ops + 1
         /\ active' = {a \in active : a.title_name /= title}
         /\ last' = Report("admin_force_release", "ok", "")
         /\ UNCHANGED <<now, setting, reservations, titles, schedules,
                        activated, calls, tick>>

\* set_shift_hours without the test of db_utils.py 66-67
set_shift_hours_Unchecked(row, hours) ==
    [raised |-> FALSE, row |-> IntSetting(hours)]

\* set_shift_hours without the branch of db_utils.py 71-72 for a missing row
set_shift_hours_UpdateOnly(row, hours) ==
    IF ~(MIN_SHIFT <= hours /\ hours <= MAX_SHIFT)
    THEN [raised |-> TRUE, row |-> row]
    ELSE [raised |-> FALSE,
          row |-> IF row.kind = "missing" THEN row ELSE IntSetting(hours)]

\* db_utils.py 63-73: ValueError outside [1, 72], before the row is read;
\* otherwise the row is updated, or added, with str(hours)
set_shift_hours(row, hours) ==
    IF ~(MIN_SHIFT <= hours /\ hours <= MAX_SHIFT)
    THEN [raised |-> TRUE, row |-> row]
    ELSE [raised |-> FALSE, row |-> IntSetting(hours)]

\* web_routes.py 409-432: the form field is text
admin_set_shift_hours(raw) ==
    LET hours == int(Strip(raw))
        set   == set_shift_hours(setting, hours.value)
    IN  /\ ops < MaxOps
        /\ ops' = ops + 1
        /\ setting' = IF hours.raised
                          \/ ~(MIN_SHIFT <= hours.value /\ hours.value <= MAX_SHIFT)
                       THEN setting ELSE set.row
        /\ last' = [Report("admin_set_shift_hours",
                           IF hours.raised THEN "NotANumber"
                           ELSE IF ~(MIN_SHIFT <= hours.value
                                     /\ hours.value <= MAX_SHIFT)
                           THEN "InvalidConfiguration"
                           ELSE IF set.raised THEN "InternalError" ELSE "ok",
                           "")
                    EXCEPT !.arg = raw]
        /\ UNCHANGED <<now, reservations, active, titles, schedules, activated,
                       calls, tick>>

\* main.py 733-746: /shift set; the command accepts 1..72 only
shift_set(hours) ==
    /\ MIN_SHIFT <= hours /\ hours <= MAX_SHIFT
    /\ ops < MaxOps
    /\ ops' = ops + 1
    /\ setting' = set_shift_hours(setting, hours).row
    /\ last' = [Report("shift_set", "ok", "") EXCEPT !.arg = str(hours)]
    /\ UNCHANGED <<now, reservations, active, titles, schedules, activated,
                   calls, tick>>

\* db_utils.py 63-73 called directly
set_shift_hours_call(hours) ==
    LET set == set_shift_hours(setting, hours)
    IN  /\ ops < MaxOps
        /\ ops' = ops + 1
        /\ setting' = set.row
        /\ last' = [Report("set_shift_hours",
                           IF set.raised THEN "ValueError" ELSE "ok", "")
                    EXCEPT !.arg = str(hours)]
        /\ UNCHANGED <<now, reservations, active, titles, schedules, activated,
                       calls, tick>>

\* db_utils.py 49-60 called directly
get_shift_hours_call ==
    /\ ops < MaxOps
    /\ ops' = ops + 1
    /\ last' = [Report("get_shift_hours", "ok", "")
                EXCEPT !.out = <<get_shift_hours(setting)>>]
    /\ UNCHANGED <<now, setting, reservations, active, titles, schedules,
                   activated, calls, tick>>

\* db_utils.py 77-90 called directly
compute_slots_call(shift_hours) ==
    /\ ops < MaxOps
    /\ ops' = ops + 1
    /\ last' = [Report("compute_slots", "ok", "")
                EXCEPT !.arg = str(shift_hours),
                       !.out = compute_slots(shift_hours)]
    /\ UNCHANGED <<now, setting, reservations, active, titles, schedules,
                   activated, calls, tick>>


\* -------------------------------------------------------------- scheduler
\* main.py 329-338
scan_expired_titles(ts, now_dt) ==
    {t \in DOMAIN ts :
        /\ ts[t].holder /= Nothing
        /\ ts[t].expiry_date /= Nothing
        /\ now_dt >= parse_iso_utc(The(ts[t].expiry_date))}

\* main.py 340-347
release_title_blocking(ts, title) ==
    IF title \notin DOMAIN ts THEN ts ELSE [ts EXCEPT ![title] = Vacant]

\* activate_slot with the module's SHIFT_HOURS default (main.py 61) in place
\* of the stored setting read at main.py 306
activate_slot_DefaultShift(ts, row, title, ign, start_dt) ==
    LET end_dt == start_dt + SHIFT_DEFAULT * 3600
    IN  [ts EXCEPT ![title] =
            [holder |-> Opt(ign),
             claim_date |-> Opt(IsoText(start_dt)),
             expiry_date |-> IF title = GOH THEN Nothing ELSE Opt(IsoText(end_dt))]]

\* main.py 305-317: the holder record written for a promoted slot
activate_slot(ts, row, title, ign, start_dt) ==
    LET end_dt == start_dt + get_shift_hours(row) * 3600
    IN  [ts EXCEPT ![title] =
            [holder |-> Opt(ign),
             claim_date |-> Opt(IsoText(start_dt)),
             expiry_date |-> IF title = GOH THEN Nothing ELSE Opt(IsoText(end_dt))]]

\* DueSlots with the scan of a title stopping at the first slot it collects
RECURSIVE DueSlots_FirstOnly(_, _, _, _)
DueSlots_FirstOnly(title, entries, done, now_dt) ==
    IF entries = <<>> THEN <<>>
    ELSE LET e        == Head(entries)
             start_dt == parse_iso_utc(e.slot_key)
         IN  IF start_dt > now_dt \/ <<title, e.slot_key>> \in done
             THEN DueSlots_FirstOnly(title, Tail(entries), done, now_dt)
             ELSE <<[title |-> title, ign |-> e.ign, start_dt |-> start_dt]>>

\* DueSlots without the test of main.py 795-796 on activated_slots
RECURSIVE DueSlots_IgnoreFlags(_, _, _, _)
DueSlots_IgnoreFlags(title, entries, done, now_dt) ==
    IF entries = <<>> THEN <<>>
    ELSE LET e        == Head(entries)
             start_dt == parse_iso_utc(e.slot_key)
             rest     == DueSlots_IgnoreFlags(title, Tail(entries), done, now_dt)
         IN  IF start_dt > now_dt
             THEN rest
             ELSE <<[title |-> title, ign |-> e.ign, start_dt |-> start_dt]>> \o rest

\* main.py 786-798: the due slots of one title not yet flagged, in dict order
RECURSIVE DueSlots(_, _, _, _)
DueSlots(title, entries, done, now_dt) ==
    IF entries = <<>> THEN <<>>
    ELSE LET e        == Head(entries)
             start_dt == parse_iso_utc(e.slot_key)
             rest     == DueSlots(title, Tail(entries), done, now_dt)
         IN  IF start_dt > now_dt \/ <<title, e.slot_key>> \in done
             THEN rest
             ELSE <<[title |-> title, ign |-> e.ign, start_dt |-> start_dt]>> \o rest

RECURSIVE ToActivate(_, _, _, _)
ToActivate(order, sched, done, now_dt) ==
    IF order = <<>> THEN <<>>
    ELSE DueSlots(Head(order), sched[Head(order)], done, now_dt)
             \o ToActivate(Tail(order), sched, done, now_dt)

\* main.py 799-800: activate_slot for each entry of to_activate, in order
RECURSIVE ActivateAll(_, _, _)
ActivateAll(ts, row, todo) ==
    IF todo = <<>> THEN ts
    ELSE ActivateAll(activate_slot(ts, row, Head(todo).title, Head(todo).ign,
                                   Head(todo).start_dt),
                     row, Tail(todo))

\* main.py 313-316: the flags activate_slot sets
FlagsOf(todo) ==
    {<<todo[i].title, iso_slot_key_naive(UtcDt(todo[i].start_dt))>> : i \in DOMAIN todo}

\* title_check_loop with the titles found expired at the start of the run
\* released after the due slots are activated
title_check_loop_ReleaseLast ==
    LET to_release  == scan_expired_titles(titles, now)
        to_activate == ToActivate(ORDERED_TITLES, schedules, activated, now)
        promoted    == ActivateAll(titles, setting, to_activate)
    IN  /\ titles' = [t \in DOMAIN titles |->
                          IF t \in to_release
                          THEN release_title_blocking(promoted, t)[t]
                          ELSE promoted[t]]
        /\ activated' = activated \cup FlagsOf(to_activate)
        /\ last' = [Report("title_check_loop", "ok", "") EXCEPT
                        !.again = last.op = "title_check_loop",
                        !.released = to_release]
        /\ UNCHANGED <<now, setting, reservations, active, schedules, calls, tick, ops>>

\* main.py 777-802: one run of the loop body
title_check_loop ==
    LET to_release  == scan_expired_titles(titles, now)
        released    == [t \in DOMAIN titles |->
                           IF t \in to_release
                           THEN release_title_blocking(titles, t)[t]
                           ELSE titles[t]]
        to_activate == ToActivate(ORDERED_TITLES, schedules, activated, now)
    IN  /\ titles' = ActivateAll(released, setting, to_activate)
        /\ activated' = activated \cup FlagsOf(to_activate)
        /\ last' = [Report("title_check_loop", "ok", "") EXCEPT
                        !.again = last.op = "title_check_loop",
                        !.released = to_release]
        /\ UNCHANGED <<now, setting, reservations, active, schedules, calls, tick, ops>>

\* assign without the test of main.py 841 for Guardian of Harmony
assign_AlwaysExpires(title, ign) ==
    IF title \notin CatalogTitles
    THEN RefusedReq("assign", "UnknownTitle", title, ign, 0)
    ELSE
        /\ ops < MaxOps
        /\ ops' = ops + 1
        /\ titles' = [titles EXCEPT ![title] =
                          [holder |-> Opt(ign),
                           claim_date |-> Opt(IsoText(now)),
                           expiry_date |->
                               Opt(IsoText(now + get_shift_hours(setting) * 3600))]]
        /\ last' = [Report("assign", "ok", "")
                    EXCEPT !.req = [NoReq EXCEPT !.title = title, !.ign = ign]]
        /\ UNCHANGED <<now, setting, reservations, active, schedules,
                       activated, calls, tick>>

\* main.py 830-862: !assign <Title Name> | <In-Game Name>
assign(title, ign) ==
    IF title \notin CatalogTitles
    THEN RefusedReq("assign", "UnknownTitle", title, ign, 0)
    ELSE
        LET expiry == IF title = GOH THEN Nothing
                      ELSE Opt(IsoText(now + get_shift_hours(setting) * 3600))
        IN  /\ ops < MaxOps
            /\ ops' = ops + 1
            /\ titles' = [titles EXCEPT ![title] =
                              [holder |-> Opt(ign),
                               claim_date |-> Opt(IsoText(now)),
                               expiry_date |-> expiry]]
            /\ last' = [Report("assign", "ok", "")
                        EXCEPT !.req = [NoReq EXCEPT !.title = title,
                                                     !.ign = ign]]
            /\ UNCHANGED <<now, setting, reservations, active, schedules,
                           activated, calls, tick>>

\* main.py 716-727: /titles release
titles_release(title) ==
    IF title \notin DOMAIN titles THEN Refused("titles_release", "NotFound")
    ELSE /\ ops < MaxOps
         /\ ops' = ops + 1
         /\ titles' = release_title_blocking(titles, title)
         /\ last' = Report("titles_release", "ok", "")
         /\ UNCHANGED <<now, setting, reservations, active, schedules,
                        activated, calls, tick>>

\* The clock moves on.
Advance(t) ==
    /\ t > now
    /\ now' = t
    /\ last' = Report("advance", "ok", "")
    /\ UNCHANGED <<setting, reservations, active, titles, schedules, activated,
                   calls, tick, ops>>

\* ------------------------------------------------------------ the program
Next ==
    \/ \E title \in TitleInputs, ign \in Names, coords \in CoordInputs, t \in FormTimes :
           book_slot(title, ign, coords, t)
    \/ \E title \in TitleInputs, ign \in Names, coords \in CoordInputs, t \in ChoiceTimes :
           titles_reserve(title, ign, coords, t)
    \/ \E title \in TitleInputs, ign \in Names, coords \in CoordInputs, t \in FormTimes :
           on_submit(title, ign, coords, t)
    \/ \E title \in TitleInputs, ign \in Names, t \in SlotTimes :
           admin_manual_set_slot(title, ign, t)
    \/ \E title \in TitleInputs, t \in SlotTimes, live \in BOOLEAN :
           admin_release_reservation(title, t, live)
    \/ \E hours \in ShiftInputs : admin_set_shift_hours(str(hours))
    \/ title_check_loop
    \/ \E t \in Clock : Advance(t)

Spec == Init /\ [][Next]_vars


\* ------------------------------------------ the life of the assignments
\* Bookings through the web form, forced slots and cancellations, together
\* with the direct assignments and releases of the web admin and of the bot,
\* the shift setting and the scheduler loop.
LiveNext ==
    \/ \E title \in TitleChoices, ign \in Names, t \in SlotTimes :
           book_slot(title, ign, Dash, t)
    \/ \E title \in TitleChoices, ign \in Names, t \in SlotTimes :
           admin_manual_set_slot(title, ign, t)
    \/ \E title \in TitleChoices, t \in SlotTimes, live \in BOOLEAN :
           admin_release_reservation(title, t, live)
    \/ \E title \in HeldTitles, ign \in Names :
           admin_manual_assign(title, ign, FALSE)
    \/ \E title \in HeldTitles : admin_force_release(title)
    \/ \E hours \in {6, 12} : admin_set_shift_hours(str(hours))
    \/ \E title \in HeldTitles, ign \in Names : assign(title, ign)
    \/ \E title \in HeldTitles : titles_release(title)
    \/ title_check_loop
    \/ \E t \in Clock : Advance(t)

SpecLive == Init /\ [][LiveNext]_vars

\* ------------------------------------------- the shared writer on its own
\* _reserve_slot_core takes any datetime: naive, or aware with any offset,
\* with or without seconds.  Its callers pass it a requestable title.
CoreDts ==
    {dt \in {Dt(w + sec, off, aware) :
                w \in FormTimes, sec \in {0, 30}, off \in {0, ClockStep},
                aware \in BOOLEAN} :
        dt.aware \/ dt.off = 0}

\* main.py 517-597 called directly
reserve_slot_core_call(title, ign, coords, dt) ==
    /\ title \in REQUESTABLE
    /\ Booking("reserve_slot_core", title, ign, coords, dt)

CoreNext ==
    \/ \E title \in TitleInputs, ign \in Names, coords \in CoordInputs, dt \in CoreDts :
           reserve_slot_core_call(title, ign, coords, dt)
    \/ \E hours \in ShiftInputs : admin_set_shift_hours(str(hours))
    \/ \E t \in Clock : Advance(t)

SpecCore == Init /\ [][CoreNext]_vars

\* ------------------------------------- the shift setting and the slot grid
\* The texts the row may hold when the program starts: what set_shift_hours
\* wrote, or what another hand left in the table.
StoredTexts ==
    {str(12), str(6), str(0), str(73), str(0 - 3), <<>>, <<" ">>,
     <<" ", "8", " ">>, <<"a", "b">>, <<"1", "2", "h">>, <<"1", ".", "5">>}
StoredSettings == {NoSetting} \cup {SettingRow(text) : text \in StoredTexts}

HourInputs == (0 - 2)..75
SetInputs == {0 - 1, 0, 1, 5, 8, 24, 72, 73}
RawInputs == {str(8), str(0), str(73), <<" ", "6">>, <<"x">>, <<>>}

SettingsInit ==
    /\ now = 0
    /\ setting \in StoredSettings
    /\ reservations = {}
    /\ active = {}
    /\ titles = [t \in CatalogTitles |-> Vacant]
    /\ schedules = [t \in CatalogTitles |-> <<>>]
    /\ activated = {}
    /\ calls = [th \in Threads |-> IdleCall]
    /\ tick = IdleTick
    /\ ops = 0
    /\ last = Report("start", "ok", "")

SettingsNext ==
    \/ \E hours \in SetInputs : set_shift_hours_call(hours)
    \/ \E raw \in RawInputs : admin_set_shift_hours(raw)
    \/ \E hours \in {5, 24} : shift_set(hours)
    \/ get_shift_hours_call
    \/ \E shift_hours \in HourInputs : compute_slots_call(shift_hours)

SpecSettings == SettingsInit /\ [][SettingsNext]_vars

\* ------------------------------------- bookings on concurrent web threads
\* models.py 49-56: uq_res_title_slotdt and uq_res_title_slottxt
UniqueViolation(rows, row) ==
    \E r \in rows :
        /\ r.title_name = row.title_name
        /\ (r.slot_dt = row.slot_dt \/ r.slot_ts = row.slot_ts)

Finish(th, result, by) ==
    calls' = [calls EXCEPT ![th].pc = "done", ![th].result = result, ![th].by = by]

\* web_routes.py 127-148 and main.py 517-539: up to the first query
ConcBegin(th, title, ign, coords, t) ==
    LET c     == Strip(coords)
        check == CoreCheck(UtcDt(t), c, now, setting)
        args  == [calls[th] EXCEPT !.title = title, !.ign = ign,
                                   !.coords = CoreCoords(c),
                                   !.slot_dt = normalize_slot_dt(UtcDt(t))]
    IN  /\ calls[th].pc = "idle"
        /\ calls' = [calls EXCEPT ![th] =
               IF title \notin REQUESTABLE
               THEN [calls[th] EXCEPT !.pc = "done", !.result = "NotRequestable"]
               ELSE IF check /= "ok"
               THEN [calls[th] EXCEPT !.pc = "done", !.result = check]
               ELSE [args EXCEPT !.pc = "query"]]
        /\ UNCHANGED <<now, setting, reservations, active, titles, schedules,
                       activated, ops, last, tick>>

\* main.py 543-550: the query and the comparison with the row it returned
ConcQuery(th) ==
    LET c   == calls[th]
        out == DbStep(reservations, c.title, c.ign, c.coords, c.slot_dt)
    IN  /\ c.pc = "query"
        /\ IF out.result /= "ok" THEN Finish(th, out.result, out.by)
           ELSE IF out.rows = reservations
           THEN calls' = [calls EXCEPT ![th].pc = "legacy"]
           ELSE calls' = [calls EXCEPT ![th].pc = "commit"]
        /\ UNCHANGED <<now, setting, reservations, active, titles, schedules,
                       activated, ops, last, tick>>

\* main.py 552-564: the insert and its commit; the IntegrityError of a
\* violated constraint is no ValueError, and book_slot reports an internal
\* error (web_routes.py 162-165)
ConcCommit(th) ==
    LET c   == calls[th]
        row == NewReservation(c.title, c.ign, c.coords, c.slot_dt, IsoText(c.slot_dt))
    IN  /\ c.pc = "commit"
        /\ IF UniqueViolation(reservations, row)
           THEN /\ Finish(th, "InternalError", "")
                /\ UNCHANGED reservations
           ELSE /\ reservations' = reservations \cup {row}
                /\ calls' = [calls EXCEPT ![th].pc = "legacy"]
        /\ UNCHANGED <<now, setting, active, titles, schedules, activated, ops, last, tick>>

\* main.py 567-575: the schedules, under state_lock
ConcLegacy(th) ==
    LET c   == calls[th]
        leg == LegacyStep(schedules, c.title, c.ign, c.coords,
                          iso_slot_key_naive(UtcDt(c.slot_dt)))
    IN  /\ c.pc = "legacy"
        /\ schedules' = leg.sched
        /\ Finish(th, leg.result, leg.by)
        /\ UNCHANGED <<now, setting, reservations, active, titles, activated,
                       ops, last, tick>>

ConcNext ==
    \/ \E th \in Threads, title \in TitleInputs, ign \in Names,
          coords \in CoordInputs, t \in FormTimes :
           ConcBegin(th, title, ign, coords, t)
    \/ \E th \in Threads : ConcQuery(th)
    \/ \E th \in Threads : ConcCommit(th)
    \/ \E th \in Threads : ConcLegacy(th)

SpecConc == Init /\ [][ConcNext]_vars


\* ------------------------------------------- failures of the collaborators
\* What a call of a sink does: "sent", or the exception it runs into.  A
\* timeout of requests.post is a RequestException.
WebhookOutcomes == {"sent", "RequestException", "Exception"}
AirtableOutcomes == {"sent", "Exception"}

\* main.py 262-291: a RequestException is logged, any other exception leaves
\* the function
send_webhook_notification(webhook) ==
    IF webhook = "Exception" THEN "raised" ELSE "returned"

\* main.py 99-120: every exception of the create call is logged
airtable_upsert(airtable) == "returned"

\* SideEffects without the handler of main.py 587-588: what the webhook call
\* raises reaches the caller, which reports an internal error
SideEffects_Unguarded(out, webhook, airtable) ==
    IF out.result = "ok" /\ send_webhook_notification(webhook) = "raised"
    THEN [out EXCEPT !.result = "InternalError"]
    ELSE out

\* main.py 577-597: step 3, reached when steps 1 and 2 went through; what
\* either sink raises is caught and dropped (587-588, 596-597)
SideEffects(out, webhook, airtable) ==
    IF out.result /= "ok" THEN out
    ELSE LET hook  == send_webhook_notification(webhook)
             table == airtable_upsert(airtable)
         IN  IF hook = "raised" \/ table = "raised"
             THEN [out EXCEPT !.result = "ok"]
             ELSE out

\* web_routes.py 127-168 with the sinks of the shared writer
book_slot_sinks(title, ign, coords, t, webhook, airtable) ==
    IF title \notin REQUESTABLE
    THEN NotBooked("book_slot", "NotRequestable", title, ign, Strip(coords), UtcDt(t))
    ELSE
        LET core == reserve_slot_core(title, ign, Strip(coords), UtcDt(t))
            out  == SideEffects(core, webhook, airtable)
        IN  /\ ops < MaxOps
            /\ ops' = ops + 1
            /\ reservations' = out.rows
            /\ schedules' = out.sched
            /\ last' = [ReserveReport("book_slot", out.result, out.by, title, ign,
                                      Strip(coords), UtcDt(t))
                        EXCEPT !.arg = <<webhook, airtable>>]
            /\ UNCHANGED <<now, setting, active, titles, activated, calls, tick>>

\* main.py 329-338: the expired titles in the order of state['titles']
RECURSIVE InOrder(_, _)
InOrder(order, chosen) ==
    IF order = <<>> THEN <<>>
    ELSE (IF Head(order) \in chosen THEN <<Head(order)>> ELSE <<>>)
             \o InOrder(Tail(order), chosen)

\* main.py 782-783: force_release_logic for each title of to_release
RECURSIVE ReleaseAll(_, _)
ReleaseAll(ts, todo) ==
    IF todo = <<>> THEN ts
    ELSE ReleaseAll(release_title_blocking(ts, Head(todo)), Tail(todo))

\* What can go wrong at one step of a run of the loop:
\*   "HTTPException"  the announcement fails with a discord.NotFound,
\*                    Forbidden or HTTPException, which announce logs
\*                    (main.py 759-764);
\*   "announce"       the announcement raises anything else, after the step
\*                    has written state['titles'];
\*   "shift_hours"    db_get_shift_hours() raises at main.py 306, before
\*                    activate_slot has written anything.
LoopFaults == {"HTTPException", "announce", "shift_hours"}

\* main.py 777-802: a run of the loop body in which step k, counting the
\* releases and then the activations, meets the fault; the body has no
\* handler, so what is raised ends the run there
title_check_loop_raising(k, fault) ==
    LET to_release  == InOrder(ORDERED_TITLES, scan_expired_titles(titles, now))
        to_activate == ToActivate(ORDERED_TITLES, schedules, activated, now)
        nrel        == Len(to_release)
        logged      == fault = "HTTPException"
        released    == IF logged \/ k > nrel THEN to_release
                       ELSE SubSeq(to_release, 1, k)
        promoted    == IF logged THEN to_activate
                       ELSE IF k <= nrel THEN <<>>
                       ELSE IF fault = "announce"
                       THEN SubSeq(to_activate, 1, k - nrel)
                       ELSE SubSeq(to_activate, 1, k - nrel - 1)
        at          == IF k <= nrel THEN to_release[k]
                       ELSE to_activate[k - nrel].title
    IN  /\ k \in 1..(nrel + Len(to_activate))
        /\ fault = "shift_hours" => k > nrel
        /\ titles' = ActivateAll(ReleaseAll(titles, released), setting, promoted)
        /\ activated' = activated \cup FlagsOf(promoted)
        /\ last' = [Report("title_check_loop",
                           IF logged THEN "ok" ELSE "raised", at)
                    EXCEPT !.again = last.op = "title_check_loop",
                           !.released = Range(released),
                           !.arg = <<fault>>]
        /\ UNCHANGED <<now, setting, reservations, active, schedules, calls, tick, ops>>

FaultTitles == {"Architect", "General"}

FaultNext ==
    \/ \E title \in FaultTitles, ign \in Names, t \in SlotTimes,
          webhook \in WebhookOutcomes, airtable \in AirtableOutcomes :
           book_slot_sinks(title, ign, Dash, t, webhook, airtable)
    \/ \E title \in FaultTitles : assign(title, "Bob")
    \/ title_check_loop
    \/ \E k \in 1..4, fault \in LoopFaults : title_check_loop_raising(k, fault)
    \/ \E t \in Clock : Advance(t)

SpecFault == Init /\ [][FaultNext]_vars


\* ------------------------------------------------ the dashboard's views
\* db_utils.py 31-45: 'Nd Nh Nm' with the zero parts left out, '0m' when
\* nothing is left; the text is the triple <<days, hours, minutes>>
human_duration(secs) ==
    IF secs <= 0 THEN <<0, 0, 0>>
    ELSE <<secs \div 86400, (secs % 86400) \div 3600, (secs % 3600) \div 60>>

Available == "-- Available --"
NoDuration == <<>>
Shown(text) == [text |-> text, left |-> NoDuration]

\* ExpiresIn without the case of db_utils.py 125-126 for Guardian of Harmony
ExpiresIn_NoHarmony(title, rows, t_now) ==
    IF rows = {} THEN Shown("-")
    ELSE LET a == The(rows)
         IN  IF a.expiry_at /= Nothing
             THEN IF The(a.expiry_at) - t_now <= 0 THEN Shown("Expired")
                  ELSE [text |-> "left",
                        left |-> human_duration(The(a.expiry_at) - t_now)]
             ELSE Shown("Does not expire")

\* db_utils.py 122-132: the expires_in text of a card
ExpiresIn(title, rows, t_now) ==
    IF rows = {} THEN Shown("-")
    ELSE LET a == The(rows)
         IN  IF title = GOH /\ a.holder /= ""
             THEN Shown("Never")
             ELSE IF a.expiry_at /= Nothing
             THEN IF The(a.expiry_at) - t_now <= 0 THEN Shown("Expired")
                  ELSE [text |-> "left",
                        left |-> human_duration(The(a.expiry_at) - t_now)]
             ELSE Shown("Does not expire")

\* db_utils.py 101-143: one card for each row of the Title table, by id
title_status_cards(rows, t_now) ==
    [i \in DOMAIN ORDERED_TITLES |->
        LET name == ORDERED_TITLES[i]
            mine == {a \in rows : a.title_name = name}
        IN  [name |-> name,
             holder |-> IF mine = {} \/ The(mine).holder = "" THEN Available
                        ELSE The(mine).holder,
             held_for |-> IF mine = {} THEN NoDuration
                          ELSE IF t_now >= The(mine).claim_at
                          THEN human_duration(t_now - The(mine).claim_at)
                          ELSE human_duration(0),
             expires_in |-> ExpiresIn(name, mine, t_now)]]

\* The comparison of two ISO texts of the same width
TextLess(a, b) ==
    \E i \in 1..4 : a[i] < b[i] /\ \A j \in 1..(i - 1) : a[j] = b[j]

\* InWindow with the day after the last day let in at 00:00:00
InWindow_Closed(slot_ts, days) ==
    /\ ~TextLess(slot_ts, <<days[1], 0, 0, 0>>)
    /\ ~TextLess(<<days[Len(days)] + 1, 0, 0, 0>>, slot_ts)

\* db_utils.py 154-164: slot_ts >= start_iso and slot_ts < end_iso; a day is
\* its number, counted from day 0
InWindow(slot_ts, days) ==
    /\ ~TextLess(slot_ts, <<days[1], 0, 0, 0>>)
    /\ TextLess(slot_ts, <<days[Len(days)] + 1, 0, 0, 0>>)

\* db_utils.py 146-179: {title: {slot_iso: {'ign', 'coords'}}}
schedules_by_title(rows, days, hours) ==
    IF days = <<>> THEN <<>>
    ELSE
        LET kept == {r \in rows :
                        /\ InWindow(r.slot_ts, days)
                        /\ <<r.slot_ts[2], r.slot_ts[3]>> \in hours}
            slot_iso(r) == <<r.slot_ts[1], r.slot_ts[2], r.slot_ts[3], 0>>
        IN  [title \in {r.title_name : r \in kept} |->
                [key \in {slot_iso(r) : r \in {x \in kept : x.title_name = title}} |->
                    LET r == CHOOSE x \in kept :
                                 x.title_name = title /\ slot_iso(x) = key
                    IN  [ign |-> r.ign, coords |-> OrDash(r.coords)]]]

\* web_routes.py 80-83: the cards of the dashboard
title_status_cards_call ==
    /\ ops < MaxOps
    /\ ops' = ops + 1
    /\ last' = [Report("title_status_cards", "ok", "")
                EXCEPT !.out = title_status_cards(active, now)]
    /\ UNCHANGED <<now, setting, reservations, active, titles, schedules,
                   activated, calls, tick>>

\* db_utils.py 146-179 called with a list of days and a list of times
schedules_by_title_call(days, hours) ==
    /\ ops < MaxOps
    /\ ops' = ops + 1
    /\ last' = [Report("schedules_by_title", "ok", "")
                EXCEPT !.arg = <<days, hours>>,
                       !.out = schedules_by_title(reservations, days, hours)]
    /\ UNCHANGED <<now, setting, reservations, active, titles, schedules,
                   activated, calls, tick>>

\* Start times on day 0 and day 1, lists of days, lists of times.
ViewTimes == {2 * ClockStep, 4 * ClockStep}
DayLists == {<<>>, <<0>>, <<1>>, <<0, 1>>}
HourLists == {compute_slots(12), compute_slots(6)}

ViewNext ==
    \/ \E title \in TitleChoices, ign \in Names, t \in ViewTimes :
           book_slot(title, ign, Dash, t)
    \/ \E title \in FaultTitles, t \in {ClockStep, 4 * ClockStep} :
           admin_manual_set_slot(title, "Carl", t)
    \/ \E title \in HeldTitles, ign \in Names :
           admin_manual_assign(title, ign, FALSE)
    \/ \E title \in HeldTitles : admin_force_release(title)
    \/ title_status_cards_call
    \/ \E days \in DayLists, hours \in HourLists :
           schedules_by_title_call(days, Range(hours))
    \/ \E t \in Clock : Advance(t)

SpecViews == Init /\ [][ViewNext]_vars


\* ------------------------------------------------ the admin's assignments
\* Direct assignments through the web form and the bot command and forced
\* slots, for known and unknown titles, among bookings, changes of the shift
\* setting and the passing of time.
AdminNext ==
    \/ \E title \in TitleChoices, ign \in Names, t \in SlotTimes :
           book_slot(title, ign, Dash, t)
    \/ \E title \in TitleInputs, ign \in Names, goh_only \in BOOLEAN :
           admin_manual_assign(title, ign, goh_only)
    \/ \E title \in TitleInputs, ign \in Names : assign(title, ign)
    \/ \E title \in TitleInputs, ign \in Names, t \in SlotTimes :
           admin_manual_set_slot(title, ign, t)
    \/ \E hours \in {6, 12} : admin_set_shift_hours(str(hours))
    \/ \E t \in Clock : Advance(t)

SpecAdmin == Init /\ [][AdminNext]_vars

\* -------------------------------------- the scheduler loop, await by await
\* title_check_loop is a coroutine on the bot's event loop: at each await the
\* loop serves other tasks (a !assign or /titles release command) and the
\* web threads go on booking.  One step below runs from one await to the next.

\* main.py 780-782: now is read and the expired titles are collected in a
\* worker thread, in the order of state['titles']
scan_step ==
    /\ tick.pc = "idle"
    /\ tick' = [pc |-> "release", now |-> now,
                to_release |-> InOrder(ORDERED_TITLES,
                                       scan_expired_titles(titles, now)),
                to_activate |-> <<>>]
    /\ last' = Report("scan_expired_titles", "ok", "")
    /\ UNCHANGED <<now, setting, reservations, active, titles, schedules,
                   activated, calls, ops>>

\* main.py 782-783 and 767-775: the next title of to_release is released by
\* _release_title_blocking, which clears the holder record whatever it holds
force_release_logic ==
    LET title == Head(tick.to_release)
    IN  /\ tick.pc = "release"
        /\ tick.to_release /= <<>>
        /\ titles' = release_title_blocking(titles, title)
        /\ tick' = [tick EXCEPT !.to_release = Tail(tick.to_release)]
        /\ last' = [Report("force_release_logic", "ok", "")
                    EXCEPT !.released = {title}]
        /\ UNCHANGED <<now, setting, reservations, active, schedules,
                       activated, calls, ops>>

\* main.py 785-802: once the releases are done the due slots are collected
\* under state_lock with the now read at the start of the run, and the first
\* is activated without an await in between; each further activation
\* follows the await of the announcement of the one before
activate_step ==
    LET todo == IF tick.pc = "release"
                THEN ToActivate(ORDERED_TITLES, schedules, activated, tick.now)
                ELSE tick.to_activate
    IN  /\ \/ tick.pc = "release" /\ tick.to_release = <<>>
           \/ tick.pc = "activate"
        /\ IF todo = <<>>
           THEN /\ tick' = IdleTick
                /\ last' = Report("title_check_loop", "ok", "")
                /\ UNCHANGED <<titles, activated>>
           ELSE /\ titles' = activate_slot(titles, setting, Head(todo).title,
                                           Head(todo).ign, Head(todo).start_dt)
                /\ activated' = activated \cup FlagsOf(<<Head(todo)>>)
                /\ tick' = IF Tail(todo) = <<>> THEN IdleTick
                           ELSE [tick EXCEPT !.pc = "activate",
                                             !.to_activate = Tail(todo)]
                /\ last' = Report("activate_slot", "ok", Head(todo).ign)
        /\ UNCHANGED <<now, setting, reservations, active, schedules, calls, ops>>

TickNext ==
    \/ scan_step
    \/ force_release_logic
    \/ activate_step
    \/ \E title \in FaultTitles, ign \in Names, t \in SlotTimes :
           book_slot(title, ign, Dash, t)
    \/ \E title \in FaultTitles, ign \in Names : assign(title, ign)
    \/ \E title \in FaultTitles : titles_release(title)
    \/ \E t \in Clock : Advance(t)

SpecTick == Init /\ [][TickNext]_vars

\* ------------------------------------------- cancelling ahead of the slot
\* The admin cancels reservations only while their slot is still to come;
\* bookings, runs of the scheduler loop and the clock go on around them.
CancelNext ==
    \/ \E title \in TitleChoices, ign \in Names, t \in SlotTimes :
           book_slot(title, ign, Dash, t)
    \/ \E title \in TitleChoices, t \in SlotTimes, live \in BOOLEAN :
           t > now /\ admin_release_reservation(title, t, live)
    \/ title_check_loop
    \/ \E t \in Clock : Advance(t)

SpecCancel == Init /\ [][CancelNext]_vars

\* ------------------------------------------------ changing the shift hours
\* The shift hours are changed through the web form and through /shift set
\* while reservations and assignments exist and the scheduler loop runs.
ShiftNext ==
    \/ \E title \in TitleChoices, ign \in Names, t \in SlotTimes :
           book_slot(title, ign, Dash, t)
    \/ \E title \in TitleChoices : admin_manual_assign(title, "Carl", FALSE)
    \/ \E title \in TitleChoices : assign(title, "Carl")
    \/ \E hours \in {6, 12} : admin_set_shift_hours(str(hours))
    \/ \E hours \in {6, 12} : shift_set(hours)
    \/ title_check_loop
    \/ \E t \in Clock : Advance(t)

SpecShift == Init /\ [][ShiftNext]_vars

\* ------------------------------------------ reservations due for promotion
\* upcoming_unactivated_reservations skipping a reservation only when the
\* live row was claimed strictly after the slot (db_utils.py 267 with >)
upcoming_unactivated_reservations_ClaimAfter(rows, act, t_now) ==
    {<<r.title_name, r.ign, parse_iso_utc(r.slot_ts)>> :
        r \in {x \in rows :
                 /\ parse_iso_utc(x.slot_ts) <= t_now
                 /\ \A a \in act :
                       a.title_name = x.title_name
                       => ~(a.claim_at > parse_iso_utc(x.slot_ts))}}

\* db_utils.py 238-272: the slot is read from the text column slot_ts; a
\* row is skipped when its slot is after now or when the title's live row
\* was claimed at the slot or later.  The list is taken as a set: the order
\* of Reservation.query.all() is the database's.
upcoming_unactivated_reservations(rows, act, t_now) ==
    {<<r.title_name, r.ign, parse_iso_utc(r.slot_ts)>> :
        r \in {x \in rows :
                 /\ ~(parse_iso_utc(x.slot_ts) > t_now)
                 /\ \A a \in act :
                       a.title_name = x.title_name
                       => ~(a.claim_at >= parse_iso_utc(x.slot_ts))}}

\* db_utils.py 238-272 called with the current time
upcoming_unactivated_reservations_call ==
    /\ ops < MaxOps
    /\ ops' = ops + 1
    /\ last' = [Report("upcoming_unactivated_reservations", "ok", "")
                EXCEPT !.out = upcoming_unactivated_reservations(
                                   reservations, active, now)]
    /\ UNCHANGED <<now, setting, reservations, active, titles, schedules,
                   activated, calls, tick>>

DueNext ==
    \/ \E title \in TitleChoices, ign \in Names, t \in SlotTimes :
           book_slot(title, ign, Dash, t)
    \/ \E title \in FaultTitles, t \in SlotTimes :
           admin_manual_set_slot(title, "Carl", t)
    \/ \E title \in FaultTitles : admin_manual_assign(title, "Bob", FALSE)
    \/ upcoming_unactivated_reservations_call
    \/ \E t \in Clock : Advance(t)

SpecDue == Init /\ [][DueNext]_vars

\* ================================================================ claims
BookingOps == {"book_slot", "titles_reserve", "on_submit"}

\* The instant a request asks for, and the canonical slot it would book.
ReqStart(req) == Instant(AssumeUtc(req.dt))
ReqSlot(req) == ZeroSeconds(ReqStart(req))

\* The slot grid in force, and the time of day of an instant in UTC.
Grid == Range(compute_slots(get_shift_hours(setting)))
UtcHM(t) == <<(t \div 3600) % 24, (t \div 60) % 60>>

\* The preconditions a request may violate.
IsPast(req) == ReqStart(req) <= now
OffGrid(req) == UtcHM(ReqStart(req)) \notin Grid
BadCoords(req) ==
    LET c == Strip(OrDash(req.coords)) IN c /= Dash /\ ~CoordsMatch(c)
NotRequestable(req) == req.title = GOH \/ req.title \notin CatalogTitles
Valid(req) ==
    ~IsPast(req) /\ ~OffGrid(req) /\ ~BadCoords(req) /\ ~NotRequestable(req)

\* The stored contact a request asks for.
ReqContact(req) == OrDash(Strip(OrDash(req.coords)))

\* C1: two bookings of the same (title, canonical slot time) by different
\* claimants, run on two threads in any interleaving while no other booking
\* is in progress: when both have returned, one has succeeded and the other
\* has failed with the slot-taken error, and with no other error.
C1_MutualExclusion ==
    \A a, b \in Threads :
        ( /\ a /= b
          /\ calls[a].pc = "done" /\ calls[b].pc = "done"
          /\ calls[a].title \in REQUESTABLE
          /\ calls[a].title = calls[b].title
          /\ calls[a].slot_dt = calls[b].slot_dt
          /\ calls[a].ign /= calls[b].ign
          /\ \A th \in Threads \ {a, b} : calls[th].pc = "idle" )
        => {calls[a].result, calls[b].result} = {"ok", "SlotTaken"}

\* C2: a booking that repeats, with the same title, claimant, contact and
\* start time, the booking that has just succeeded (the start still in the
\* future) succeeds too, leaves the reservations as they were, and the table
\* holds exactly one row for that (title, slot), with that claimant and contact.
C2_IdempotentRetry ==
    [][ (last'.op \in BookingOps /\ last'.again)
        => /\ last'.result = "ok"
           /\ reservations' = reservations
           /\ \E r \in reservations' :
                 /\ DbExisting(reservations', last'.req.title, ReqSlot(last'.req)) = {r}
                 /\ r.ign = last'.req.ign
                 /\ r.coords = ReqContact(last'.req) ]_vars

\* A booking has just been repeated and has succeeded again.
C2_Witness ==
    /\ last.op \in BookingOps
    /\ last.again
    /\ last.result = "ok"
    /\ Cardinality(DbExisting(reservations, last.req.title, ReqSlot(last.req))) = 1

\* C3: in every reachable state, whatever bookings, forced slots and
\* cancellations led to it, the reservation table holds at most one row per
\* (title, canonical slot time).
C3_OnePerSlot ==
    \A r1, r2 \in reservations :
        (r1.title_name = r2.title_name /\ r1.slot_dt = r2.slot_dt) => r1 = r2

\* A forced slot has just been written over a slot somebody else had booked.
C3_Witness ==
    /\ last.op = "admin_manual_set_slot"
    /\ last.result = "ok"
    /\ \E r \in reservations :
          \E i \in DOMAIN schedules[r.title_name] :
              /\ schedules[r.title_name][i].slot_key = IsoText(r.slot_dt)
              /\ schedules[r.title_name][i].ign /= r.ign

\* C4: a booking that passes the precondition checks and finds a row for its
\* (title, canonical slot time) that differs from it in claimant or in contact
\* fails with the slot-taken error naming the row's claimant, and the row
\* stays as it was.
C4_SlotTaken ==
    [][ last'.op \in BookingOps
        => \A r \in reservations :
              ( /\ Valid(last'.req)
                /\ r.title_name = last'.req.title
                /\ r.slot_dt = ReqSlot(last'.req)
                /\ (r.ign /= last'.req.ign \/ r.coords /= ReqContact(last'.req)) )
              => /\ last'.result = "SlotTaken"
                 /\ last'.by = r.ign
                 /\ r \in reservations' ]_vars

\* A booking by the claimant of the stored row, with another contact, has
\* just been refused.
C4_Witness ==
    /\ last.op \in BookingOps
    /\ last.result = "SlotTaken"
    /\ Valid(last.req)
    /\ \E r \in DbExisting(reservations, last.req.title, ReqSlot(last.req)) :
          /\ r.ign = last.req.ign
          /\ r.ign = last.by
          /\ r.coords /= ReqContact(last.req)

\* C5: a call of the shared writer whose start time is not strictly later
\* than the current time, the current time itself included, fails with the
\* past-time error and leaves the reservations and the schedules as they were.
C5_PastTime ==
    [][ (last'.op = "reserve_slot_core" /\ ReqStart(last'.req) <= now)
        => /\ last'.result = "PastTime"
           /\ reservations' = reservations
           /\ schedules' = schedules ]_vars

\* A call for the current instant itself has just been refused.
C5_Witness ==
    /\ last.op = "reserve_slot_core"
    /\ ReqStart(last.req) = now
    /\ last.result = "PastTime"
    /\ now > 0

FirstViolated(req, order) ==
    LET bad == [k \in {"PastTime", "InvalidSlot", "InvalidCoords", "NotRequestable"} |->
                   CASE k = "PastTime" -> IsPast(req)
                     [] k = "InvalidSlot" -> OffGrid(req)
                     [] k = "InvalidCoords" -> BadCoords(req)
                     [] k = "NotRequestable" -> NotRequestable(req)]
        hit == {i \in DOMAIN order : bad[order[i]]}
    IN  IF hit = {} THEN Nothing
        ELSE Opt(order[CHOOSE i \in hit : \A j \in hit : i <= j])

\* C7 as written: a booking, at any entry point, that violates preconditions
\* reports the first violated one in the order past time, off-grid slot,
\* invalid coordinates, non-requestable title.
C7_OrderAsWritten ==
    (last.op \in BookingOps /\ ~Valid(last.req))
    => Opt(last.result) = FirstViolated(last.req,
           <<"PastTime", "InvalidSlot", "InvalidCoords", "NotRequestable">>)

\* C7: a booking, at any entry point, with every field present and a date
\* and time that parse, that violates preconditions reports the first
\* violated one in the order non-requestable title, past time, off-grid slot,
\* invalid coordinates.
C7_Order ==
    (last.op \in BookingOps /\ ~Valid(last.req))
    => Opt(last.result) = FirstViolated(last.req,
           <<"NotRequestable", "PastTime", "InvalidSlot", "InvalidCoords">>)

\* A booking that violates the four preconditions at once has just been
\* refused.
C7_Witness ==
    /\ last.op \in BookingOps
    /\ last.result = "NotRequestable"
    /\ IsPast(last.req) /\ OffGrid(last.req) /\ BadCoords(last.req)
    /\ NotRequestable(last.req)

\* C8: a booking for a title that is not requestable (Guardian of Harmony,
\* or a title absent from the catalog) fails with the not-requestable error
\* and leaves both stores, and the schedules, as they were; no row of the
\* reservation table is for such a title.
C8_NotRequestable ==
    [][ /\ (last'.op \in BookingOps /\ NotRequestable(last'.req))
            => /\ last'.result = "NotRequestable"
               /\ UNCHANGED <<reservations, active, titles, schedules, activated>>
        /\ \A r \in reservations' : r.title_name \in REQUESTABLE ]_vars

\* A booking for Guardian of Harmony that passes every other check has just
\* been refused while the table held a row.
C8_Witness ==
    /\ last.op \in BookingOps
    /\ last.req.title = GOH
    /\ ~IsPast(last.req) /\ ~OffGrid(last.req) /\ ~BadCoords(last.req)
    /\ last.result = "NotRequestable"
    /\ reservations /= {}

\* C9: whenever a booking reports a failure of any kind, the reservation
\* table holds exactly the rows it held before the call, in any state reached
\* through bookings, cancellations and forced slots.
C9_AllOrNothing ==
    [][ (last'.op \in BookingOps /\ last'.result /= "ok")
        => reservations' = reservations ]_vars

\* The rows of the reservation table that are due: started, not yet consumed,
\* and for a title nobody holds.
DueRows ==
    {r \in reservations :
        /\ r.slot_dt <= now
        /\ <<r.title_name, IsoText(r.slot_dt)>> \notin activated
        /\ titles[r.title_name].holder = Nothing
        /\ \A a \in active : a.title_name /= r.title_name}

\* C10: one run of the scheduler loop gives the title of every due row a
\* holder record with the row's claimant as holder, the row's start as claim
\* time, and the start plus the shift hours as expiry (none for Guardian of
\* Harmony).
C10_Promotion ==
    [][ last'.op = "title_check_loop"
        => \A r \in DueRows :
              titles'[r.title_name] =
                  [holder |-> Opt(r.ign),
                   claim_date |-> Opt(IsoText(r.slot_dt)),
                   expiry_date |->
                       IF r.title_name = GOH THEN Nothing
                       ELSE Opt(IsoText(r.slot_dt
                                + get_shift_hours(setting) * 3600))] ]_vars

\* The entries of state['schedules'] of a title that are due and not yet
\* flagged as activated.
DueEntries(t) ==
    {i \in DOMAIN schedules[t] :
        /\ parse_iso_utc(schedules[t][i].slot_key) <= now
        /\ <<t, schedules[t][i].slot_key>> \notin activated}

\* A title whose holder record in state['titles'] has run out.
ExpiredHolder(t) ==
    /\ titles[t].holder /= Nothing
    /\ titles[t].expiry_date /= Nothing
    /\ parse_iso_utc(The(titles[t].expiry_date)) <= now

\* C11: one run of the scheduler loop releases every assignment whose expiry
\* time is set and has been reached, whichever request created it: a live row
\* of the table active_title is gone after the run, and a holder record of
\* state['titles'] is cleared (unless the same run promotes a due slot of the
\* title).
C11_ExpiryRelease ==
    [][ last'.op = "title_check_loop"
        => /\ \A a \in active :
                 (a.expiry_at /= Nothing /\ The(a.expiry_at) <= now)
                 => a \notin active'
           /\ \A t \in DOMAIN titles :
                 (ExpiredHolder(t) /\ DueEntries(t) = {}) => titles'[t] = Vacant
      ]_vars

\* The slot, if any, a holder record of state['titles'] was promoted from.
PromotedFrom(t) ==
    {i \in DOMAIN schedules[t] :
        /\ titles[t].claim_date = Opt(schedules[t][i].slot_key)
        /\ titles[t].holder = Opt(schedules[t][i].ign)
        /\ <<t, schedules[t][i].slot_key>> \in activated}

\* C12 as written: a run of the scheduler loop that follows another run at
\* the same time, with no request in between, changes nothing: both stores,
\* the schedules and the activated flags are as they were.
C12_SecondTickNoOp ==
    [][ (last'.op = "title_check_loop" /\ last'.again)
        => UNCHANGED <<titles, active, reservations, schedules, activated>> ]_vars

\* C12: a run of the scheduler loop that follows another run at the same
\* time, with no request in between, promotes nothing and flags nothing, and
\* changes neither table nor the schedules; the only thing it may do is
\* release a holder the first run promoted from a slot whose expiry
\* (start + shift hours) had already been reached.
C12_SecondTick ==
    [][ (last'.op = "title_check_loop" /\ last'.again)
        => /\ UNCHANGED <<active, reservations, schedules, activated>>
           /\ \A t \in DOMAIN titles :
                 \/ titles'[t] = titles[t]
                 \/ /\ titles'[t] = Vacant
                    /\ ExpiredHolder(t)
                    /\ PromotedFrom(t) /= {} ]_vars

\* Two runs in a row have just been made at a time when two slots of a title
\* were due, and the title is held by the claimant of one of them.
C12_Witness ==
    /\ last.op = "title_check_loop"
    /\ last.again
    /\ \E t \in DOMAIN titles :
          /\ PromotedFrom(t) /= {}
          /\ ~ExpiredHolder(t)
          /\ Cardinality({i \in DOMAIN schedules[t] :
                             <<t, schedules[t][i].slot_key>> \in activated}) >= 2

\* The holder record a run of the loop writes for entry i of a title.
Promotion(t, i) ==
    LET start == parse_iso_utc(schedules[t][i].slot_key)
    IN  [holder |-> Opt(schedules[t][i].ign),
         claim_date |-> Opt(IsoText(start)),
         expiry_date |->
             IF t = GOH THEN Nothing
             ELSE Opt(IsoText(start + get_shift_hours(setting) * 3600))]

\* C13: when a run of the scheduler loop finds a title whose holder has
\* expired and for which a slot is due and not yet flagged, the title is,
\* after that one run, held by the claimant of such a slot, with the slot's
\* start as claim time: the expired holder is released before the due slots
\* are activated, so the title is left neither with the expired holder nor
\* vacant.
C13_ExpiryBeforePromotion ==
    [][ last'.op = "title_check_loop"
        => \A t \in DOMAIN titles :
              (ExpiredHolder(t) /\ DueEntries(t) /= {})
              => \E i \in DueEntries(t) : titles'[t] = Promotion(t, i) ]_vars

\* A run has just released an expired holder and given the title to the
\* claimant of a due slot.
C13_Witness ==
    /\ last.op = "title_check_loop"
    /\ \E t \in last.released :
          /\ PromotedFrom(t) /= {}
          /\ titles[t].holder /= Nothing

\* C14: a run of the scheduler loop never replaces a holder whose claim time
\* is equal to or later than the start of the slot it promotes: when a run
\* gives a title a new holder record, the holder it found there (if it had
\* not expired) had claimed the title before the new record's claim time, and
\* no slot of the title that was due at the run starts later than that claim
\* time.
C14_NoLaterClaimReplaced ==
    [][ last'.op = "title_check_loop"
        => \A t \in DOMAIN titles :
              (titles'[t] /= titles[t] /\ titles'[t].holder /= Nothing)
              => LET claim == parse_iso_utc(The(titles'[t].claim_date))
                 IN  /\ (titles[t].holder /= Nothing /\ ~ExpiredHolder(t))
                         => parse_iso_utc(The(titles[t].claim_date)) < claim
                     /\ \A i \in DueEntries(t) :
                            parse_iso_utc(schedules[t][i].slot_key) <= claim
      ]_vars

\* C15: a slot is promoted at most once: a run of the scheduler loop gives
\* a title a new holder record only from a slot that was not yet flagged as
\* activated, every slot that was due at the run is flagged after it, and no
\* step ever clears a flag; so a later run does not promote the slot again,
\* also after the holder it produced has expired or has been released.
C15_PromotedOnce ==
    [][ /\ activated \subseteq activated'
        /\ last'.op = "title_check_loop"
            => \A t \in DOMAIN titles :
                  /\ (titles'[t] /= titles[t] /\ titles'[t].holder /= Nothing)
                      => \E i \in DueEntries(t) : titles'[t] = Promotion(t, i)
                  /\ \A i \in DueEntries(t) :
                         <<t, schedules[t][i].slot_key>> \in activated' ]_vars

\* A run has just left vacant a title that has a slot promoted by an earlier
\* run, its holder having been released since.
C15_Witness ==
    /\ last.op = "title_check_loop"
    /\ last.released = {}
    /\ ~last.again
    /\ \E t \in DOMAIN titles :
          /\ titles[t] = Vacant
          /\ \E i \in DOMAIN schedules[t] :
                <<t, schedules[t][i].slot_key>> \in activated

\* C16: in every reachable state, whatever promotions, direct assignments,
\* forced slots, releases and expiries led to it, the table active_title
\* holds at most one row per title, and state['titles'] holds one holder
\* record per catalog title.
C16_OneActivePerTitle ==
    /\ \A a1, a2 \in active : a1.title_name = a2.title_name => a1 = a2
    /\ DOMAIN titles = CatalogTitles

\* A direct assignment has just been written for a title one of whose
\* reserved slots had already started, and both titles have a live row.
C16_Witness ==
    /\ last.op = "admin_manual_assign"
    /\ last.result = "ok"
    /\ Cardinality(active) = 2
    /\ \E a \in active, r \in reservations :
          /\ r.title_name = a.title_name
          /\ r.slot_dt < a.claim_at
          /\ a.claim_at = now

\* C17: in every reachable state an assignment has no expiry time if and
\* only if its title is Guardian of Harmony, in the table active_title and in
\* state['titles'] alike, whichever request wrote it; and no run of the
\* scheduler loop releases Guardian of Harmony.
C17_NullExpiryIffHarmony ==
    /\ \A a \in active : (a.expiry_at = Nothing) <=> (a.title_name = GOH)
    /\ \A t \in DOMAIN titles :
          titles[t].holder /= Nothing
          => ((titles[t].expiry_date = Nothing) <=> (t = GOH))
    /\ GOH \notin last.released

\* A run of the loop has just released another title while Guardian of
\* Harmony, assigned earlier through the bot and through the web, stays held.
C17_Witness ==
    /\ last.op = "title_check_loop"
    /\ last.released /= {}
    /\ titles[GOH].holder /= Nothing
    /\ parse_iso_utc(The(titles[GOH].claim_date)) < now
    /\ \E a \in active : a.title_name = GOH /\ a.claim_at < now

\* C18: a cancellation never removes a reservation whose start time has been
\* reached (start <= now): the request is refused and the row stays in the
\* table.
C18_StartedNotCancelled ==
    [][ last'.op = "admin_release_reservation"
        => \A r \in reservations : r.slot_dt <= now => r \in reservations' ]_vars


\* The title and start time a cancellation asked for, and the rows of the
\* Reservation table that either lookup of the route finds for them.
Cancelled == last'.op = "admin_release_reservation"
AskedRows ==
    {r \in reservations :
        /\ r.title_name = last'.req.title
        /\ \/ r.slot_dt = ReqStart(last'.req)
           \/ r.slot_ts = IsoText(ReqStart(last'.req))}

\* C19: a cancellation of a (title, slot) that has no reservation reports
\* "not found", with nothing raised, and leaves the Reservation table and the
\* ActiveTitle table as they were, also when also_release_live is ticked.
C19_NotFoundUnchanged ==
    [][ Cancelled /\ AskedRows = {}
        => /\ last'.result = "NotFound"
           /\ last'.released = {}
           /\ reservations' = reservations
           /\ active' = active ]_vars

\* A cancellation with also_release_live found no reservation while the title
\* had a live row claimed at the very start time asked for.
C19_Witness ==
    /\ last.op = "admin_release_reservation"
    /\ last.result = "NotFound"
    /\ last.also_release_live
    /\ reservations /= {}
    /\ \E a \in active : /\ a.title_name = last.req.title
                         /\ a.claim_at = ReqStart(last.req)

\* C20: a successful cancellation deletes the one reservation asked for and no
\* other; the title's live row is deleted exactly when also_release_live is
\* ticked, its holder is the cancelled claimant and its claim_at is the
\* cancelled start time; every other live row stays.
C20_CancelEffect ==
    [][ Cancelled /\ last'.result = "ok"
        => \E res \in AskedRows :
              LET start == ReqStart(last'.req)
                  match == {a \in active : /\ last'.also_release_live
                                           /\ a.title_name = res.title_name
                                           /\ a.holder = res.ign
                                           /\ a.claim_at = start}
              IN  /\ last'.by = res.ign
                  /\ reservations' = reservations \ {res}
                  /\ active' = active \ match
                  /\ last'.released = {a.title_name : a \in match} ]_vars

\* A cancellation with also_release_live took the reservation and, with it,
\* the live row of its claimant claimed at its start: the title has no holder.
C20_Witness ==
    /\ last.op = "admin_release_reservation"
    /\ last.result = "ok"
    /\ last.also_release_live
    /\ last.released = {last.req.title}
    /\ \A a \in active : a.title_name /= last.req.title


\* The shift length a call of compute_slots was given.
GridCall(h) == last.op = "compute_slots" /\ last.arg = str(h)
TwelveHourGrid == <<(<<0, 0>>), (<<12, 0>>)>>

\* C21: for a shift length h in 1..72 that divides 24, compute_slots(h) is the
\* list of the 24/h times HH:00 that starts at 00:00 and goes up in steps of
\* h hours.
C21_GridOfDivisor ==
    \A h \in MIN_SHIFT..MAX_SHIFT :
        (GridCall(h) /\ 24 % h = 0)
        => /\ Len(last.out) = 24 \div h
           /\ \A i \in 1..Len(last.out) : last.out[i] = <<(i - 1) * h, 0>>

\* compute_slots(8) returned three times.
C21_Witness == GridCall(8) /\ Len(last.out) = 3

\* C22: for a shift length that does not divide 24 (every h above 24 is one)
\* and for h <= 0, compute_slots(h) is the grid of 12 hours, 00:00 and 12:00,
\* so never empty; computing a grid leaves the stored setting as it was.
C22_FallbackGrid ==
    [][ \A h \in HourInputs :
          (last'.op = "compute_slots" /\ last'.arg = str(h))
          => /\ setting' = setting
             /\ last'.out /= <<>>
             /\ (h <= 0 \/ 24 % h /= 0)
                => /\ last'.out = TwelveHourGrid
                   /\ last'.out = compute_slots(12) ]_vars

\* compute_slots(5) and compute_slots(25) fall back; here 25 was asked with a
\* stored setting other than 12.
C22_Witness ==
    /\ GridCall(25)
    /\ last.out = TwelveHourGrid
    /\ get_shift_hours(setting) /= 12


\* The stored setting is the integer h: the row exists and its text, blanks
\* aside, is the decimal writing of h.
Stores(h) == setting.kind = "row" /\ Strip(setting.value) = str(h)

\* C23: get_shift_hours returns an integer of 1..72 whatever the row holds:
\* the stored integer when it is one of 1..72, and 12 when the row is missing,
\* blank, not a number or out of 1..72.
C23_SafeShiftHours ==
    last.op = "get_shift_hours"
    => LET got == last.out[1]
       IN  /\ got \in MIN_SHIFT..MAX_SHIFT
           /\ \A h \in MIN_SHIFT..MAX_SHIFT : Stores(h) => got = h
           /\ (~\E h \in MIN_SHIFT..MAX_SHIFT : Stores(h)) => got = SHIFT_DEFAULT

\* get_shift_hours answered 12 while the row held '73'.
C23_Witness ==
    /\ last.op = "get_shift_hours"
    /\ Stores(73)
    /\ last.out = <<SHIFT_DEFAULT>>


\* A step that stored the shift length h: set_shift_hours, the admin form or
\* /shift set, with h written as text and the call reported as a success.
SetStep(h) ==
    /\ last'.op \in {"set_shift_hours", "admin_set_shift_hours", "shift_set"}
    /\ Strip(last'.arg) = str(h)
    /\ last'.result = "ok"

\* C24: set_shift_hours(h) with h outside 1..72 fails with the error for an
\* invalid setting (ValueError; 'must be between 1 and 72' on the admin form)
\* and the stored setting stays what it was.
C24_InvalidShiftRefused ==
    [][ \A h \in SetInputs \ (MIN_SHIFT..MAX_SHIFT) :
          /\ (last'.op = "set_shift_hours" /\ last'.arg = str(h))
             => (last'.result = "ValueError" /\ setting' = setting)
          /\ (last'.op = "admin_set_shift_hours" /\ Strip(last'.arg) = str(h))
             => (last'.result = "InvalidConfiguration" /\ setting' = setting)
      ]_vars

\* set_shift_hours(73) raised while the row held '6', and it still does.
C24_Witness ==
    /\ last.op = "set_shift_hours"
    /\ last.arg = str(73)
    /\ last.result = "ValueError"
    /\ Stores(6)

\* C25: once set_shift_hours(h) has succeeded for an h of 1..72, with or
\* without a row to update, get_shift_hours() is h, and it stays h through
\* every step that is not a successful set_shift_hours.
C25_SetThenGet ==
    [][ /\ \A h \in MIN_SHIFT..MAX_SHIFT :
             SetStep(h) => get_shift_hours(setting') = h
        /\ (~\E h \in MIN_SHIFT..MAX_SHIFT : SetStep(h))
             => get_shift_hours(setting') = get_shift_hours(setting)
        /\ last'.op = "get_shift_hours"
             => last'.out = <<get_shift_hours(setting)>> ]_vars

\* get_shift_hours() answered 5, the value a set_shift_hours had stored.
C25_Witness ==
    /\ last.op = "get_shift_hours"
    /\ last.out = <<5>>
    /\ Stores(5)


\* C26: a booking that passes the checks and finds its slot free is committed;
\* when the webhook or the Airtable call then fails, by an error, a timeout
\* or any other exception, the booking still reports success, its row is in
\* the table and no row has been taken out.
C26_SinkFailureKeepsBooking ==
    [][ ( /\ last'.op = "book_slot"
          /\ last'.arg /= <<"sent", "sent">>
          /\ Valid(last'.req)
          /\ DbExisting(reservations, last'.req.title, ReqSlot(last'.req)) = {} )
        => /\ last'.result = "ok"
           /\ reservations \subseteq reservations'
           /\ \E r \in reservations' :
                 /\ r.title_name = last'.req.title
                 /\ r.slot_dt = ReqSlot(last'.req)
                 /\ r.ign = last'.req.ign ]_vars

\* A booking whose webhook call and Airtable call both raised has reported
\* success and its row is stored.
C26_Witness ==
    /\ last.op = "book_slot"
    /\ last.arg = <<"Exception", "Exception">>
    /\ last.result = "ok"
    /\ \E r \in reservations : /\ r.title_name = last.req.title
                               /\ r.slot_dt = ReqSlot(last.req)
                               /\ r.ign = last.req.ign


\* C27: in one run of the scheduler loop, a failure met while one title is
\* processed (its release, its promotion or the announcement sent for it)
\* leaves every other title that had expired released, and every due slot of
\* every other title promoted, by the end of that run.
C27_FailureIsolated ==
    [][ last'.op = "title_check_loop"
        => /\ \A t \in scan_expired_titles(titles, now) :
                 t /= last'.by => t \in last'.released
           /\ \A t \in DOMAIN schedules : \A i \in DOMAIN schedules[t] :
                 ( /\ t /= last'.by
                   /\ parse_iso_utc(schedules[t][i].slot_key) <= now
                   /\ <<t, schedules[t][i].slot_key>> \notin activated )
                 => <<t, schedules[t][i].slot_key>> \in activated' ]_vars


\* The card of a title among the cards returned, and the whole seconds a
\* duration text stands for.
CardOf(cards, title) == cards[CHOOSE i \in DOMAIN cards : cards[i].name = title]
DurationSeconds(left) == left[1] * 86400 + left[2] * 3600 + left[3] * 60

\* C28: title_status_cards returns one card for each title of the catalog and
\* writes nothing; expires_in reads 'Never' exactly for Guardian of Harmony
\* while it is held, 'Expired' for a live row whose expiry is set and reached,
\* the time left (to the minute) for one whose expiry is ahead; the holder
\* reads as available for a title without a live row.
C28_StatusCards ==
    [][ last'.op = "title_status_cards"
        => LET cards == last'.out
           IN  /\ UNCHANGED <<setting, reservations, active, titles, schedules,
                              activated>>
               /\ Len(cards) = Cardinality(CatalogTitles)
               /\ \A title \in CatalogTitles :
                     \E i \in DOMAIN cards : cards[i].name = title
               /\ \A i \in DOMAIN cards :
                     LET card == cards[i]
                         mine == {a \in active : a.title_name = card.name}
                     IN  /\ (card.expires_in.text = "Never")
                                <=> (card.name = GOH /\ mine /= {})
                         /\ mine = {} => card.holder = Available
                         /\ \A a \in mine :
                               /\ card.holder = a.holder
                               /\ (a.expiry_at /= Nothing /\ The(a.expiry_at) <= now)
                                     => card.expires_in.text = "Expired"
                               /\ (a.expiry_at /= Nothing /\ The(a.expiry_at) > now)
                                     => /\ card.expires_in.text = "left"
                                        /\ DurationSeconds(card.expires_in.left)
                                               <= The(a.expiry_at) - now
                                        /\ The(a.expiry_at) - now
                                               < DurationSeconds(card.expires_in.left) + 60
           ]_vars

\* The cards were asked for while Guardian of Harmony was held and the
\* holder of Architect had run past the expiry: 'Never' and 'Expired'.
C28_Witness ==
    /\ last.op = "title_status_cards"
    /\ CardOf(last.out, GOH).expires_in.text = "Never"
    /\ CardOf(last.out, "Architect").expires_in.text = "Expired"
    /\ CardOf(last.out, "General").holder = Available


\* C29: schedules_by_title(days, hours) writes nothing and returns, by title
\* and under the key 'YYYY-MM-DDTHH:MM:00' of its start, each stored
\* reservation that starts at or after 00:00 of days[0], before 00:00 of the
\* day after days[-1], and at a time of day in hours, and nothing else; an
\* empty list of days gives an empty result.
C29_ScheduleWindow ==
    [][ last'.op = "schedules_by_title"
        => LET days  == last'.arg[1]
               hours == last'.arg[2]
               out   == last'.out
               inside(r) ==
                   /\ days /= <<>>
                   /\ days[1] * 86400 <= r.slot_dt
                   /\ r.slot_dt < (days[Len(days)] + 1) * 86400
                   /\ UtcHM(r.slot_dt) \in hours
           IN  /\ reservations' = reservations
               /\ days = <<>> => out = <<>>
               /\ \A r \in reservations :
                     inside(r)
                     => /\ r.title_name \in DOMAIN out
                        /\ IsoText(r.slot_dt) \in DOMAIN out[r.title_name]
                        /\ out[r.title_name][IsoText(r.slot_dt)]
                               = [ign |-> r.ign, coords |-> r.coords]
               /\ \A title \in DOMAIN out : \A key \in DOMAIN out[title] :
                     \E r \in reservations :
                         /\ inside(r)
                         /\ r.title_name = title
                         /\ IsoText(r.slot_dt) = key ]_vars

\* The schedule of day 0 was asked for while the table held a reservation at
\* 12:00 of day 0, which is in it, and one at 00:00 of day 1, which is not.
C29_Witness ==
    /\ last.op = "schedules_by_title"
    /\ last.arg[1] = <<0>>
    /\ \E r \in reservations : r.slot_dt = 86400
    /\ \E title \in DOMAIN last.out : DOMAIN last.out[title] = {IsoText(43200)}


\* C30: while a reservation stays in the table its claimant and its contact
\* stay the same: whatever the step (a booking, a forced slot, a run of the
\* scheduler loop), a (title, slot) that has a row before and after the step
\* has the same claimant and contact in both.
C30_ReservationImmutable ==
    [][ \A r \in reservations : \A q \in reservations' :
          (q.title_name = r.title_name /\ q.slot_dt = r.slot_dt)
          => (q.ign = r.ign /\ q.coords = r.coords) ]_vars


\* the expiry of a direct assignment written now: none for Guardian of
\* Harmony, else now plus the shift hours in force
DirectExpiry(title) ==
    IF title = GOH THEN Nothing ELSE Opt(now + get_shift_hours(setting) * 3600)

\* C31: a direct admin assignment of title T to name N at time now, through
\* the web form or the bot command, is carried out for every known title
\* whatever the time of day (no slot-grid check); it writes T's assignment
\* with holder N, claim time now and expiry now + the current shift hours
\* (none for Guardian of Harmony), replacing the one T had, and leaves every
\* other title's assignment and every reservation as they were; an unknown
\* title is turned away and nothing changes.
C31_DirectAssignment ==
    [][ (last'.op \in {"admin_manual_assign", "assign"} /\ ops' = ops + 1)
        => LET T == last'.req.title
               N == last'.req.ign
           IN  /\ last'.result \in {"ok", "UnknownTitle", "GohOnly"}
               /\ last'.result = "GohOnly" => T /= GOH
               /\ last'.result = "UnknownTitle" <=>
                      (T \notin CatalogTitles /\ last'.result /= "GohOnly")
               /\ last'.result /= "ok" =>
                      UNCHANGED <<reservations, schedules, active, titles,
                                  activated, setting>>
               /\ (last'.result = "ok" /\ last'.op = "admin_manual_assign") =>
                      /\ \A a \in active' :
                            a.title_name = T =>
                                /\ a.holder = N
                                /\ a.claim_at = now
                                /\ a.expiry_at = DirectExpiry(T)
                      /\ \E a \in active' : a.title_name = T
                      /\ {a \in active' : a.title_name /= T}
                             = {a \in active : a.title_name /= T}
                      /\ UNCHANGED <<reservations, schedules, titles,
                                     activated, setting>>
               /\ (last'.result = "ok" /\ last'.op = "assign") =>
                      /\ titles'[T].holder = Opt(N)
                      /\ titles'[T].claim_date /= Nothing
                      /\ parse_iso_utc(The(titles'[T].claim_date)) = now
                      /\ IF T = GOH THEN titles'[T].expiry_date = Nothing
                         ELSE /\ titles'[T].expiry_date /= Nothing
                              /\ Opt(parse_iso_utc(The(titles'[T].expiry_date)))
                                     = DirectExpiry(T)
                      /\ \A t \in DOMAIN titles \ {T} : titles'[t] = titles[t]
                      /\ UNCHANGED <<reservations, schedules, active,
                                     activated, setting>>
      ]_vars

\* At a time of day off the slot grid, a direct assignment through the web
\* form has just replaced the assignment a title already had, while another
\* title is held, a reservation is stored and the bot's state holds a title
\* for another name.
C31_Witness ==
    /\ last.op = "admin_manual_assign"
    /\ last.result = "ok"
    /\ strftime_HM(UtcDt(now)) \notin Range(compute_slots(get_shift_hours(setting)))
    /\ reservations /= {}
    /\ \E a, b \in active :
          /\ a.title_name = last.req.title
          /\ a.holder = last.req.ign
          /\ a.claim_at = now
          /\ b.title_name /= a.title_name
    /\ \E t \in DOMAIN titles :
          titles[t].holder /= Nothing /\ titles[t].holder /= Opt(last.req.ign)


\* C32: a forced-slot assignment for (title, start) is always turned away
\* for Guardian of Harmony with nothing changed; for another known title,
\* with start <= now it leaves the title with the one live row (holder = the
\* given name, claim time = start, expiry = start + the current shift hours)
\* within the same request, and with start > now it leaves the table
\* active_title as it was.
C32_ForcedSlot ==
    [][ (last'.op = "admin_manual_set_slot" /\ ops' = ops + 1)
        => LET T     == last'.req.title
               N     == last'.req.ign
               start == Instant(last'.req.dt)
               end   == start + get_shift_hours(setting) * 3600
           IN  /\ T = GOH =>
                      /\ last'.result = "Rejected"
                      /\ UNCHANGED <<reservations, schedules, active, titles,
                                     activated, setting>>
               /\ (last'.result = "ok" /\ start <= now) =>
                      /\ {a \in active' : a.title_name = T}
                             = {ActiveRow(T, N, start, Opt(end))}
                      /\ {a \in active' : a.title_name /= T}
                             = {a \in active : a.title_name /= T}
               /\ (last'.result = "ok" /\ start > now) => active' = active
               /\ (T \in CatalogTitles \ {GOH}) => last'.result = "ok"
      ]_vars

\* A forced slot whose start is the present instant has just replaced the
\* live row its title had, while Guardian of Harmony is held too.
C32_Witness ==
    /\ last.op = "admin_manual_set_slot"
    /\ last.result = "ok"
    /\ Instant(last.req.dt) = now
    /\ \E a, g \in active :
          /\ a.title_name = last.req.title
          /\ a.holder = last.req.ign
          /\ a.claim_at = now
          /\ g.title_name = GOH
    /\ \E r \in reservations :
          r.title_name = last.req.title /\ r.slot_dt = now /\ r.ign = last.req.ign


\* Two start times denote the same UTC minute.
SameMinute(d1, d2) ==
    Instant(AssumeUtc(d1)) \div 60 = Instant(AssumeUtc(d2)) \div 60

\* Over the start times the shared writer is called with: two that denote
\* the same UTC minute have the same canonical slot time and slot key, and
\* normalizing a canonical slot time gives it back.
SameMinuteSameKey ==
    \A d1, d2 \in CoreDts :
        /\ normalize_slot_dt(UtcDt(normalize_slot_dt(d1))) = normalize_slot_dt(d1)
        /\ SameMinute(d1, d2) =>
              /\ normalize_slot_dt(d1) = normalize_slot_dt(d2)
              /\ iso_slot_key_naive(UtcDt(normalize_slot_dt(d1)))
                    = iso_slot_key_naive(UtcDt(normalize_slot_dt(d2)))

\* C33: two start times that denote the same UTC minute (other seconds,
\* another offset, naive instead of aware) normalize to the same canonical
\* slot time and the same slot key, and normalizing the canonical time again
\* gives it back; hence when the title has a reservation stored for the
\* minute a call's start time denotes, for another claimant or contact, the
\* call books nothing, and once past the time, grid and coordinate checks it
\* is answered with the slot-taken error naming the stored claimant.
C33_SameMinuteCollides ==
    [][ (last'.op = "reserve_slot_core" /\ ops' = ops + 1)
        => /\ SameMinuteSameKey
           /\ \A r \in reservations :
                 ( /\ r.title_name = last'.req.title
                   /\ SameMinute(UtcDt(r.slot_dt), last'.req.dt)
                   /\ (r.ign /= last'.req.ign
                          \/ r.coords /= ReqContact(last'.req)) )
                 => /\ last'.result /= "ok"
                    /\ UNCHANGED <<reservations, schedules>>
                    /\ last'.result \notin
                          {"PastTime", "InvalidSlot", "InvalidCoords"}
                       => (last'.result = "SlotTaken" /\ last'.by = r.ign)
      ]_vars

\* A call whose start time carries seconds or an offset has just been
\* answered with the slot-taken error, the title's row for that minute
\* belonging to another claimant and not matching the start time as written.
C33_Witness ==
    /\ last.op = "reserve_slot_core"
    /\ last.result = "SlotTaken"
    /\ (last.req.dt.wall % 60 /= 0 \/ last.req.dt.off /= 0)
    /\ \E r \in reservations :
          /\ r.title_name = last.req.title
          /\ r.slot_dt = ReqSlot(last.req)
          /\ r.slot_dt /= last.req.dt.wall
          /\ r.ign /= last.req.ign
          /\ r.ign = last.by


\* C34: a run of the scheduler loop vacates a title only if, at the moment
\* of the release, the title's holder record has an expiry time that has
\* been reached; an assignment written between the run's scan for expired
\* titles and its release step is not cleared by the run.
C34_ReleaseOnlyExpired ==
    [][ (last'.op = "force_release_logic" /\ titles' /= titles)
        => \A t \in last'.released :
              /\ titles[t].expiry_date /= Nothing
              /\ parse_iso_utc(The(titles[t].expiry_date)) <= now ]_vars


\* C35: once a cancellation has removed a reservation whose slot is still to
\* come, no run of the scheduler loop promotes it (a run writes a holder
\* record only for a slot that has a row in the reservations table), and a
\* valid booking of a (title, slot) that has no row in the table succeeds,
\* whoever held the slot before the cancellation.
C35_CancelledNeverPromoted ==
    [][ /\ last'.op = "title_check_loop"
           => \A t \in DOMAIN titles :
                 (titles'[t] /= titles[t] /\ titles'[t].holder /= Nothing)
                 => \E r \in reservations :
                       /\ r.title_name = t
                       /\ IsoText(r.slot_dt) = The(titles'[t].claim_date)
        /\ ( /\ last'.op \in BookingOps
             /\ ops' = ops + 1
             /\ Valid(last'.req)
             /\ DbExisting(reservations, last'.req.title, ReqSlot(last'.req)) = {} )
           => last'.result = "ok"
      ]_vars


\* The holder and the expiry instant of a title in the table active_title
\* and in state['titles'].
DbHolding(t) ==
    {[holder |-> a.holder, expiry |-> a.expiry_at] :
        a \in {x \in active : x.title_name = t}}
LegacyHolding(t) ==
    IF titles[t].holder = Nothing THEN {}
    ELSE {[holder |-> The(titles[t].holder),
           expiry |-> IF titles[t].expiry_date = Nothing THEN Nothing
                      ELSE Opt(parse_iso_utc(The(titles[t].expiry_date)))]}

\* C36: after every completed operation the two representations agree: for
\* every title the holder and expiry in the table active_title equal those
\* in state['titles'], and the (title, slot, claimant) triples of the
\* reservations table are those of state['schedules'].
C36_StoresAgree ==
    /\ \A t \in CatalogTitles : DbHolding(t) = LegacyHolding(t)
    /\ {<<r.title_name, r.slot_dt, r.ign>> : r \in reservations}
          = UNION {{<<t, parse_iso_utc(schedules[t][i].slot_key), schedules[t][i].ign>> :
                       i \in DOMAIN schedules[t]} : t \in DOMAIN schedules}


C38_ShiftChangeFrame ==
    [][ /\ last'.op \in {"admin_set_shift_hours", "shift_set"}
           => UNCHANGED <<reservations, active, titles, schedules, activated>>
        /\ last'.op = "title_check_loop"
           => /\ UNCHANGED <<reservations, schedules, setting>>
              /\ \A t \in DOMAIN schedules : \A i \in DOMAIN schedules[t] :
                    parse_iso_utc(schedules[t][i].slot_key) <= now
                    => <<t, schedules[t][i].slot_key>> \in activated'
              /\ \A t \in DOMAIN titles :
                    (titles'[t] /= titles[t] /\ titles'[t].holder /= Nothing)
                    => /\ \E i \in DOMAIN schedules[t] :
                             /\ schedules[t][i].slot_key = The(titles'[t].claim_date)
                             /\ Opt(schedules[t][i].ign) = titles'[t].holder
                       /\ parse_iso_utc(The(titles'[t].expiry_date))
                             = parse_iso_utc(The(titles'[t].claim_date))
                                 + get_shift_hours(setting) * 3600
      ]_vars

\* A run of the loop has just promoted a reservation that is still stored
\* and whose time of day is not on the grid of the shift hours now in force,
\* which were changed after it was booked; its expiry is counted with them.
C38_Witness ==
    /\ last.op = "title_check_loop"
    /\ \E t \in DOMAIN titles, r \in reservations :
          /\ titles[t].holder = Opt(r.ign)
          /\ r.title_name = t
          /\ titles[t].claim_date = Opt(IsoText(r.slot_dt))
          /\ UtcHM(r.slot_dt) \notin Grid
          /\ parse_iso_utc(The(titles[t].expiry_date))
                = r.slot_dt + get_shift_hours(setting) * 3600


\* The live row of a title, if it has one.
LiveRows(t) == {a \in active : a.title_name = t}

\* C39: upcoming_unactivated_reservations(now) returns exactly the stored
\* reservations (title, claimant, slot) whose slot time is <= now and whose
\* title has no live row or one claimed strictly before the slot; those
\* with a later slot, or with a live row claimed at the slot or after it,
\* are left out, and the call changes no store.
C39_DueReservations ==
    [][ (last'.op = "upcoming_unactivated_reservations" /\ ops' = ops + 1)
        => /\ \A r \in reservations :
                 <<r.title_name, r.ign, r.slot_dt>> \in last'.out
                 <=> /\ r.slot_dt <= now
                     /\ \/ LiveRows(r.title_name) = {}
                        \/ \E a \in LiveRows(r.title_name) : a.claim_at < r.slot_dt
           /\ \A o \in last'.out :
                 \E r \in reservations : o = <<r.title_name, r.ign, r.slot_dt>>
           /\ UNCHANGED <<reservations, active, titles, schedules, activated,
                          setting>>
      ]_vars

\* A call has just returned one started reservation, of a title whose live
\* row was claimed before the slot, and left out another started
\* reservation, of a title whose live row was claimed at the slot.
C39_Witness ==
    /\ last.op = "upcoming_unactivated_reservations"
    /\ \E r, q \in reservations :
          /\ <<r.title_name, r.ign, r.slot_dt>> \in last.out
          /\ \E a \in LiveRows(r.title_name) : a.claim_at < r.slot_dt
          /\ q.slot_dt <= now
          /\ <<q.title_name, q.ign, q.slot_dt>> \notin last.out
          /\ \E a \in LiveRows(q.title_name) : a.claim_at = q.slot_dt

====
